---- MODULE Spec2Model ----
(***************************************************************************)
(* Model of the react-styles makeStyle() compiler: the StyleManager, its   *)
(* shared registry and the visitor based parser of                         *)
(* src/makeStyleManager.mjs (the class that starts at line 366).           *)
(*                                                                         *)
(* JavaScript strings are sequences of one-character strings, so that the  *)
(* parser's slicing and character tests are computed, not assumed.         *)
(* JavaScript objects are ordered maps: sequences of <<key, value>> pairs  *)
(* in for-in order.                                                        *)
(***************************************************************************)
EXTENDS Integers, Sequences, FiniteSets, TLC

(***************************************************************************)
(* Characters and strings                                                  *)
(***************************************************************************)

\* the printable ASCII characters, Ascii[i] has character code i + 31
\* (code 96, the grave accent, cannot be written in a TLA+ string and is
\* spelled out; no string of the model holds it)
Ascii ==
    << " ", "!", "\"", "#", "$", "%", "&", "'", "(", ")", "*", "+", ",", "-", ".", "/",
       "0", "1", "2", "3", "4", "5", "6", "7", "8", "9", ":", ";", "<", "=", ">", "?",
       "@", "A", "B", "C", "D", "E", "F", "G", "H", "I", "J", "K", "L", "M", "N", "O",
       "P", "Q", "R", "S", "T", "U", "V", "W", "X", "Y", "Z", "[", "\\", "]", "^", "_",
       "GRAVE", "a", "b", "c", "d", "e", "f", "g", "h", "i", "j", "k", "l", "m", "n", "o",
       "p", "q", "r", "s", "t", "u", "v", "w", "x", "y", "z", "{", "|", "}", "~" >>

\* the character code of every printable ASCII character
CharCodeTable(table) ==
    [c \in {table[i] : i \in 1..Len(table)} |->
        (CHOOSE i \in 1..Len(table) : table[i] = c) + 31]
CharCodes == CharCodeTable(Ascii)

\* String.prototype.charCodeAt(0) of a one-character string
CharCode(c) == IF c = "\n" THEN 10 ELSE CharCodes[c]

\* String.fromCharCode for a printable character code
FromCharCode(code) == Ascii[code - 31]

\* str.charCodeAt(0): NaN (modelled as -1) on the empty string
FirstCode(str) == IF Len(str) = 0 THEN -1 ELSE CharCode(str[1])

\* char.toLowerCase() for an ASCII character
LowerCaseOf(c, code) ==
    IF code >= 65 /\ code <= 90 THEN FromCharCode(code + 32) ELSE c
ToLowerCase(c) == LowerCaseOf(c, CharCode(c))

\* str.slice(0, n)
SliceTo(str, n) == SubSeq(str, 1, IF n < Len(str) THEN n ELSE Len(str))

\* str.slice(n)
SliceFrom(str, n) == SubSeq(str, n + 1, Len(str))

IsDigit(c) == c \in {"0", "1", "2", "3", "4", "5", "6", "7", "8", "9"}

\* the decimal digits of a natural number, as a string
RECURSIVE NatToString(_)
NatToString(n) ==
    IF n < 10 THEN << FromCharCode(48 + n) >>
    ELSE NatToString(n \div 10) \o NatToString(n % 10)

\* the value of a string of digits
RECURSIVE DigitsValue(_)
DigitsValue(str) ==
    IF Len(str) = 0 THEN 0
    ELSE 10 * DigitsValue(SubSeq(str, 1, Len(str) - 1)) + (CharCode(str[Len(str)]) - 48)

\* the longest prefix of str made of digits
RECURSIVE DigitPrefix(_)
DigitPrefix(str) ==
    IF Len(str) = 0 \/ ~IsDigit(str[1]) THEN << >>
    ELSE << str[1] >> \o DigitPrefix(Tail(str))

\* str without its leading blanks
RECURSIVE TrimStart(_)
TrimStart(str) ==
    IF Len(str) > 0 /\ str[1] \in {" ", "\n"} THEN TrimStart(Tail(str)) ELSE str

\* parseInt(str): leading blanks, an optional sign, then the longest run of
\* digits; NaN when there is no digit
parseInt(str) ==
    LET t == TrimStart(str)
        signed == Len(t) > 0 /\ t[1] \in {"+", "-"}
        digits == DigitPrefix(IF signed THEN Tail(t) ELSE t)
    IN  IF Len(digits) = 0 THEN [nan |-> TRUE, n |-> 0]
        ELSE [nan |-> FALSE,
              n |-> (IF signed /\ t[1] = "-" THEN -1 ELSE 1) * DigitsValue(digits)]

\* does hay contain needle as a contiguous substring
Contains(hay, needle) ==
    \E i \in 0..(Len(hay) - Len(needle)) : SubSeq(hay, i + 1, i + Len(needle)) = needle

(***************************************************************************)
(* JavaScript values                                                       *)
(***************************************************************************)

Undefined == [t |-> "undefined"]
Null == [t |-> "null"]
StrV(s) == [t |-> "str", s |-> s]
NumV(n) == [t |-> "num", n |-> n]
NaNV == [t |-> "nan"]
BoolV(b) == [t |-> "bool", b |-> b]
\* a function value: its body (kind), the closure it was created in (env)
\* and, for a constant producer, the value it returns
FnV(kind, env, ret) == [t |-> "fn", kind |-> kind, env |-> env, ret |-> ret]
ObjV(entries) == [t |-> "obj", entries |-> entries]
EmptyObj == ObjV(<< >>)

\* typeof value
TypeOf(v) ==
    CASE v.t = "str" -> "string"
      [] v.t = "num" -> "number"
      [] v.t = "nan" -> "number"
      [] v.t = "bool" -> "boolean"
      [] v.t = "fn" -> "function"
      [] v.t = "obj" -> "object"
      [] v.t = "null" -> "object"
      [] v.t = "undefined" -> "undefined"

\* !!value
Truthy(v) ==
    CASE v.t = "str" -> Len(v.s) > 0
      [] v.t = "num" -> v.n # 0
      [] v.t = "nan" -> FALSE
      [] v.t = "bool" -> v.b
      [] v.t = "fn" -> TRUE
      [] v.t = "obj" -> TRUE
      [] v.t = "null" -> FALSE
      [] v.t = "undefined" -> FALSE

\* String(value), as string concatenation applies it
ToStr(v) ==
    CASE v.t = "str" -> v.s
      [] v.t = "num" -> (IF v.n < 0 THEN << "-" >> ELSE << >>)
                        \o NatToString(IF v.n < 0 THEN 0 - v.n ELSE v.n)
      [] v.t = "nan" -> << "N", "a", "N" >>
      [] v.t = "bool" -> IF v.b THEN << "t", "r", "u", "e" >> ELSE << "f", "a", "l", "s", "e" >>
      [] v.t = "null" -> << "n", "u", "l", "l" >>
      [] v.t = "undefined" -> << "u", "n", "d", "e", "f", "i", "n", "e", "d" >>
      [] v.t = "obj" -> << "[", "o", "b", "j", "e", "c", "t", " ", "O", "b", "j", "e", "c", "t", "]" >>
      [] v.t = "fn" -> << "(", ")", "=", ">" >>

\* the unary plus: Number(str) of a string value is the number it spells
\* and NaN when it spells none
UnaryPlus(v) ==
    IF v.t = "num" THEN v
    ELSE IF v.t = "str" /\ \A i \in 1..Len(v.s) : IsDigit(v.s[i])
         THEN NumV(DigitsValue(v.s))
         ELSE NaNV

\* !value
Not(v) == BoolV(~Truthy(v))

\* a !== b: values of different types are never strictly equal, and NaN
\* is not equal to itself
StrictNotEqual(a, b) == a.t = "nan" \/ a # b

\* the binary plus with a string operand: string concatenation
PlusStr(a, b) == StrV(ToStr(a) \o ToStr(b))

(***************************************************************************)
(* JavaScript objects as ordered maps                                      *)
(***************************************************************************)

\* an array index key ("0", "7", "60"): for-in lists these first, ascending
IsIndexKey(k) ==
    /\ Len(k) > 0
    /\ \A i \in 1..Len(k) : IsDigit(k[i])
    /\ (Len(k) > 1 => k[1] # "0")

\* the (key, value) pairs a for-in loop over value v visits, in order
Entries(v) ==
    CASE v.t = "obj" -> v.entries
      [] v.t = "str" -> [i \in 1..Len(v.s) |-> << NatToString(i - 1), StrV(<< v.s[i] >>) >>]
      [] OTHER -> << >>

HasKey(entries, k) == \E i \in 1..Len(entries) : entries[i][1] = k

\* obj[k]
Get(entries, k) ==
    IF HasKey(entries, k)
    THEN entries[CHOOSE i \in 1..Len(entries) : entries[i][1] = k][2]
    ELSE Undefined

\* where a new key k goes in for-in order
IndexValue(k) == IF IsIndexKey(k) THEN DigitsValue(k) ELSE -1
BelowLast(values) ==
    Cardinality({i \in 1..(Len(values) - 1) :
                    values[i] >= 0 /\ values[i] < values[Len(values)]})
InsertAt(entries, k) ==
    IF IsIndexKey(k)
    THEN 1 + BelowLast([i \in 1..(Len(entries) + 1) |->
                           IndexValue(IF i > Len(entries) THEN k ELSE entries[i][1])])
    ELSE Len(entries) + 1

\* obj[k] = v: an existing key keeps its place
Put(entries, k, v) ==
    IF HasKey(entries, k)
    THEN [i \in 1..Len(entries) |-> IF entries[i][1] = k THEN << k, v >> ELSE entries[i]]
    ELSE LET p == InsertAt(entries, k)
         IN  SubSeq(entries, 1, p - 1) \o << << k, v >> >> \o SubSeq(entries, p, Len(entries))

Keys(entries) == [i \in 1..Len(entries) |-> entries[i][1]]

(***************************************************************************)
(* The parser (visitor) of makeStyle() results                             *)
(*                                                                         *)
(* The handlers of the source are closures over accumulators; here a walk  *)
(* threads a context record ctx through the handler calls:                 *)
(*   staticRules, dynamicRules  the accumulators of the init functions     *)
(*   kfRules, anyDynamic        the accumulators of _initKeyFrames         *)
(*   knownStyles, sheets        the registry and the style elements        *)
(*   envs                       the closure variables of the producers     *)
(*   err                        the exception in flight ("" when none)     *)
(*   reported                   the handler calls made so far              *)
(*   invoked                    the producer calls made so far             *)
(*   stamp                      the operation that runs (for the history   *)
(*                              kept on each style element)                *)
(***************************************************************************)

whenKey == << "w", "h", "e", "n", "=" >>

NoError == << >>
MissingInstanceError == << "D", "y", "n", "a", "m", "i", "c", " ", "p", "r", "o", "p" >>
TypeError == << "T", "y", "p", "e", "E", "r", "r", "o", "r" >>
ProducerError == << "p", "r", "o", "d", "u", "c", "e", "r", " ", "f", "a", "i", "l", "e", "d" >>

\* a handler is a tag naming the closure, or "none" when onProp lacks it
NoHandler == "none"

\* parser._toCSSProp
RECURSIVE toCSSProp(_)

\* a parser that hands property names over as they are written
toCSSProp_same(name) == name

\* parser._toCSSProp
toCSSProp(name) ==
    IF Len(name) = 0 THEN << >>
    ELSE (IF FirstCode(name) >= 65 /\ FirstCode(name) <= 90
          THEN << "-", ToLowerCase(name[1]) >> ELSE << name[1] >>)
         \o toCSSProp(Tail(name))

\* a parser without the state-qualifier branch
isWhenProp_never(prop, value) == FALSE

\* parser._isWhenProp
isWhenProp(prop, value) == SliceTo(prop, Len(whenKey)) = whenKey

\* parser._isChildProp
isChildProp(prop, value) == TypeOf(value) = "object"

\* parser._isKeyframesProp
isKeyframesProp(prop, value) == Len(prop) > 0 /\ prop[1] = "@"

\* a parser without the absolute branch
isAbsoluteProp_never(prop, value) == FALSE

\* parser._isAbsoluteProp
isAbsoluteProp(prop, value) == Len(prop) > 0 /\ prop[1] = "="

\* parser._isDynamicProp
isDynamicProp(prop, value) == TypeOf(value) = "function"

\* a parser that takes no child key for a component name
isComponentName_never(str) == FALSE

\* parser._isComponentName
isComponentName(str) == FirstCode(str) >= 65 /\ FirstCode(str) <= 90

(***************************************************************************)
(* Style elements and the registry                                         *)
(***************************************************************************)

\* document.createElement('style') appended to a container: the element is
\* its index in sheets; made and wrote are history (which operation created
\* the element, how many times innerHTML was assigned and by which
\* operation last)
NewSheet(kind, stamp) ==
    [kind |-> kind, innerHTML |-> << >>, writes |-> 0, made |-> stamp, wrote |-> stamp]

NoSheet == 0

\* StyleManager._rememberStaticSheet
rememberStaticSheet(known, fullRule, styleElement) ==
    LET memory == IF HasKey(known, fullRule) THEN Get(known, fullRule)
                  ELSE [static |-> NoSheet, dynamic |-> NoSheet]
    IN  Put(known, fullRule, [memory EXCEPT !.static = styleElement])

\* StyleManager._rememberDynamicSheet
rememberDynamicSheet(known, fullRule, styleElement) ==
    LET memory == IF HasKey(known, fullRule) THEN Get(known, fullRule)
                  ELSE [static |-> NoSheet, dynamic |-> NoSheet]
    IN  Put(known, fullRule, [memory EXCEPT !.dynamic = styleElement])

\* the exception of a createStaticSheet or createDynamicSheet handed to the
\* constructor (document.createElement or appendChild of the factory) that
\* fails. ctx.healthy is the number of calls the two functions still serve
\* before they throw, -1 when they never throw
FactoryError == << "f", "a", "c", "t", "o", "r", "y", " ", "f", "a", "i", "l", "e", "d" >>

\* this._createStaticSheet(fullRule) of the constructor: the factory's
\* _createStaticStylesheet and the registration; the new element is
\* Len(ctx.sheets) + 1
createStaticSheet(fullRule, ctx) ==
    LET style == Len(ctx.sheets) + 1
    IN  IF ctx.healthy = 0 THEN [ctx EXCEPT !.err = FactoryError]
        ELSE [ctx EXCEPT !.sheets = Append(@, NewSheet("static", ctx.stamp)),
                         !.knownStyles = rememberStaticSheet(@, fullRule, style),
                         !.healthy = IF @ > 0 THEN @ - 1 ELSE @]

\* this._createDynamicSheet(fullRule) of the constructor
createDynamicSheet(fullRule, ctx) ==
    LET style == Len(ctx.sheets) + 1
    IN  IF ctx.healthy = 0 THEN [ctx EXCEPT !.err = FactoryError]
        ELSE [ctx EXCEPT !.sheets = Append(@, NewSheet("dynamic", ctx.stamp)),
                         !.knownStyles = rememberDynamicSheet(@, fullRule, style),
                         !.healthy = IF @ > 0 THEN @ - 1 ELSE @]

(***************************************************************************)
(* Dynamic value producers                                                 *)
(***************************************************************************)

\* ref.state.o
StateO(componentInstance) ==
    Get(Entries(Get(Entries(componentInstance), << "s", "t", "a", "t", "e" >>)), << "o" >>)

\* calls that read numUpdates and leave it alone
Call_cached(fn, componentInstance, envs) ==
    CASE fn.kind = "counter" -> [val |-> NumV(envs[fn.env]), envs |-> envs, err |-> NoError]
      [] fn.kind = "peek" -> [val |-> NumV(envs[fn.env]), envs |-> envs, err |-> NoError]
      [] fn.kind = "peek5" -> [val |-> NumV(envs[fn.env] + 5), envs |-> envs, err |-> NoError]
      [] fn.kind = "const" -> [val |-> fn.ret, envs |-> envs, err |-> NoError]
      [] fn.kind = "state" -> [val |-> StateO(componentInstance), envs |-> envs, err |-> NoError]
      [] fn.kind = "fragile" -> [val |-> NumV(envs[fn.env]), envs |-> envs, err |-> NoError]

\* value(componentInstance) for a function value: the value returned and
\* the closure variables after the call. The bodies are those of the test
\* components, the README and the specification's scenarios:
\*   counter   () => numUpdates++
\*   peek      () => numUpdates
\*   peek5     () => numUpdates + 5
\*   const     (ref) => "red"
\*   state     (ref) => ref.state.o
\*   fragile   () => { if (numUpdates >= 1) throw new Error(); return numUpdates++ }
\* err is the error the call throws, NoError when it returns
Call(fn, componentInstance, envs) ==
    CASE fn.kind = "counter" ->
            [val |-> NumV(envs[fn.env]), envs |-> [envs EXCEPT ![fn.env] = @ + 1],
             err |-> NoError]
      [] fn.kind = "peek" -> [val |-> NumV(envs[fn.env]), envs |-> envs, err |-> NoError]
      [] fn.kind = "peek5" -> [val |-> NumV(envs[fn.env] + 5), envs |-> envs, err |-> NoError]
      [] fn.kind = "const" -> [val |-> fn.ret, envs |-> envs, err |-> NoError]
      [] fn.kind = "state" -> [val |-> StateO(componentInstance), envs |-> envs, err |-> NoError]
      [] fn.kind = "fragile" ->
            IF envs[fn.env] >= 1
            THEN [val |-> Undefined, envs |-> envs, err |-> ProducerError]
            ELSE [val |-> NumV(envs[fn.env]), envs |-> [envs EXCEPT ![fn.env] = @ + 1],
                  err |-> NoError]

(***************************************************************************)
(* StyleManager._insertRulesToSheet                                        *)
(***************************************************************************)

\* the step without the check of componentInstance, as in the earlier draft
resolveValue_unchecked(value, componentInstance, st) ==
    IF TypeOf(value) = "function"
    THEN LET r == Call(value, componentInstance, st.envs)
         IN  [st EXCEPT !.val = r.val, !.envs = r.envs, !.err = r.err,
                        !.invoked = Append(@, << value, componentInstance >>)]
    ELSE [st EXCEPT !.val = value]

\* the step with the call wrapped in try/catch, the value of a failed call
\* being undefined
resolveValue_caught(value, componentInstance, st) ==
    IF TypeOf(value) = "function"
    THEN IF ~Truthy(componentInstance)
         THEN [st EXCEPT !.err = MissingInstanceError, !.val = value]
         ELSE LET r == Call(value, componentInstance, st.envs)
              IN  [st EXCEPT !.val = r.val, !.envs = r.envs,
                             !.invoked = Append(@, << value, componentInstance >>)]
    ELSE [st EXCEPT !.val = value]

\* "if (typeof value === 'function') { if (!componentInstance) throw ...;
\* value = value(componentInstance) }" on the render state st: st.val is
\* the value after the step
resolveValue(value, componentInstance, st) ==
    IF TypeOf(value) = "function"
    THEN IF ~Truthy(componentInstance)
         THEN [st EXCEPT !.err = MissingInstanceError, !.val = value]
         ELSE LET r == Call(value, componentInstance, st.envs)
              IN  [st EXCEPT !.val = r.val, !.envs = r.envs, !.err = r.err,
                             !.invoked = Append(@, << value, componentInstance >>)]
    ELSE [st EXCEPT !.val = value]

\* "htmlStr += prop + ':' + value + ';\n'" on the render state after resolveValue
appendProp(prop, st) ==
    IF st.err # NoError THEN st
    ELSE [st EXCEPT !.str = @ \o prop \o << ":" >> \o ToStr(st.val) \o << ";", "\n" >>]

\* the inner loop "for (const prop in keyTimeRules)", from entry i on
RECURSIVE renderKeyTimeRules(_, _, _, _)
renderKeyTimeRules(keyTimeRules, i, componentInstance, st) ==
    IF i > Len(keyTimeRules) \/ st.err # NoError THEN st
    ELSE renderKeyTimeRules(keyTimeRules, i + 1, componentInstance,
            appendProp(keyTimeRules[i][1],
                       resolveValue(keyTimeRules[i][2], componentInstance, st)))

\* "htmlStr += '}\n'" after the inner loop
closeKeyTime(st) ==
    IF st.err # NoError THEN st ELSE [st EXCEPT !.str = @ \o << "}", "\n" >>]

\* the body of the outer loop on the render state after resolveValue: a
\* keyframes bucket when the value is an object, a property otherwise
renderProp(prop, componentInstance, st) ==
    IF st.err # NoError THEN st
    ELSE IF TypeOf(st.val) = "object"
    THEN closeKeyTime(renderKeyTimeRules(Entries(st.val), 1, componentInstance,
                         [st EXCEPT !.str = @ \o prop \o << "{", "\n" >>]))
    ELSE appendProp(prop, st)

\* the outer loop "for (const prop in ruleSet)", from entry i on
RECURSIVE renderRuleSet(_, _, _, _)
renderRuleSet(ruleSet, i, componentInstance, st) ==
    IF i > Len(ruleSet) \/ st.err # NoError THEN st
    ELSE renderRuleSet(ruleSet, i + 1, componentInstance,
            renderProp(ruleSet[i][1], componentInstance,
                       resolveValue(ruleSet[i][2], componentInstance, st)))

\* "styleElement.innerHTML = htmlStr": a TypeError when there is no element
SetInnerHTML(ctx, styleElement, htmlStr) ==
    IF styleElement = NoSheet THEN [ctx EXCEPT !.err = TypeError]
    ELSE [ctx EXCEPT !.sheets[styleElement] =
                [@ EXCEPT !.innerHTML = htmlStr, !.writes = @ + 1, !.wrote = ctx.stamp]]

\* "htmlStr += '}\n'; styleElement.innerHTML = htmlStr" on the render state
\* st the loop ended in; an exception of the loop leaves the element alone
writeSheet(styleElement, st, ctx) ==
    IF st.err # NoError
    THEN [ctx EXCEPT !.envs = st.envs, !.err = st.err, !.invoked = st.invoked]
    ELSE SetInnerHTML([ctx EXCEPT !.envs = st.envs, !.invoked = st.invoked],
                      styleElement, st.str \o << "}", "\n" >>)

\* _insertRulesToSheet(ruleLine, ruleSet, styleElement, componentInstance = null)
insertRulesToSheet(ruleLine, ruleSet, styleElement, componentInstance, ctx) ==
    writeSheet(styleElement,
               renderRuleSet(Entries(ruleSet), 1,
                             IF componentInstance = Undefined THEN Null ELSE componentInstance,
                             [str |-> ruleLine \o << "{", "\n" >>, envs |-> ctx.envs,
                              err |-> ctx.err, invoked |-> ctx.invoked, val |-> Undefined]),
               ctx)

\* "const styleSheet = this._createStaticSheet(rule);
\* this._insertRulesToSheet(rule, ruleSet, styleSheet)", after the first call
insertToNewSheet(ruleLine, ruleSet, ctx) ==
    insertRulesToSheet(ruleLine, ruleSet, Len(ctx.sheets), Undefined, ctx)

(***************************************************************************)
(* The walk: parser.parseStyle, parser.parseKeyFrames, parser._on and the  *)
(* handlers of _firstInitStyle, _laterInitStyle and _initKeyFrames         *)
(***************************************************************************)

\* "const ruleProps = rules[line] = rules[line] || {}; ruleProps[prop] = value"
PutProp(rules, line, prop, value) ==
    LET ruleProps == IF HasKey(rules, line) /\ Truthy(Get(rules, line))
                     THEN Get(rules, line) ELSE EmptyObj
    IN  Put(rules, line, ObjV(Put(Entries(ruleProps), prop, value)))

\* the handlers _initKeyFrames gives to parseKeyFrames
keyFramesOnProp == [static |-> "keyTimeStatic", dynamic |-> "keyTimeDynamic", keyframes |-> NoHandler]

\* the handlers of _firstInitStyle
firstOnProp == [static |-> "firstStatic", dynamic |-> "firstDynamic", keyframes |-> "firstKeyframes"]

\* the handlers of _laterInitStyle
laterOnProp == [static |-> NoHandler, dynamic |-> "laterDynamic", keyframes |-> "laterKeyframes"]

RECURSIVE Handle(_, _, _, _, _)

\* the call "callback(classLine, cssValidProp, value)" of parser._on
report(callback, classLine, cssValidProp, value, ctx) ==
    Handle(callback, classLine, cssValidProp, value,
           [ctx EXCEPT !.reported = Append(@,
                [on |-> callback, line |-> classLine, prop |-> cssValidProp, value |-> value])])

\* parser._on
on(onProp, condition, classLine, prop, value, ctx) ==
    IF onProp[condition] # NoHandler
    THEN report(onProp[condition], classLine,
                IF condition = "keyframes" THEN prop ELSE toCSSProp(prop), value, ctx)
    ELSE ctx

\* the inner loop of parseKeyFrames, "for (const prop in timeProps)", from entry i on
RECURSIVE parseTimeProps(_, _, _, _, _)
parseTimeProps(keyTime, timeProps, i, onProp, ctx) ==
    IF i > Len(timeProps) \/ ctx.err # NoError THEN ctx
    ELSE parseTimeProps(keyTime, timeProps, i + 1, onProp,
            on(onProp, IF isDynamicProp(timeProps[i][1], timeProps[i][2]) THEN "dynamic" ELSE "static",
               keyTime, timeProps[i][1], timeProps[i][2], ctx))

\* the outer loop of parseKeyFrames, "for (const keyProp in keyTimes)", from entry i on
RECURSIVE parseKeyTimes(_, _, _, _)
parseKeyTimes(keyTimes, i, onProp, ctx) ==
    IF i > Len(keyTimes) \/ ctx.err # NoError THEN ctx
    ELSE parseKeyTimes(keyTimes, i + 1, onProp,
            parseTimeProps(IF ~parseInt(keyTimes[i][1]).nan THEN keyTimes[i][1] \o << "%" >>
                           ELSE keyTimes[i][1],
                           Entries(keyTimes[i][2]), 1, onProp, ctx))

\* parser.parseKeyFrames
parseKeyFrames(keyTimes, onProp, ctx) == parseKeyTimes(Entries(keyTimes), 1, onProp, ctx)

\* "if (anyDynamic) this._dynamicRules[keyFramesRule] = processedKeyTimeRules"
tieKeyFrames(keyFramesRule, ctx) ==
    IF ctx.anyDynamic
    THEN [ctx EXCEPT !.dynamicRules = ObjV(Put(Entries(@), keyFramesRule, ObjV(ctx.kfRules)))]
    ELSE ctx

\* "if (isFirstInit) { if (anyDynamic) ... else ... }" of _initKeyFrames
createKeyFramesSheet(keyFramesRule, isFirstInit, ctx) ==
    IF ~isFirstInit THEN ctx
    ELSE IF ctx.anyDynamic THEN createDynamicSheet(keyFramesRule, ctx)
    ELSE insertToNewSheet(keyFramesRule, ObjV(ctx.kfRules),
                          createStaticSheet(keyFramesRule, ctx))

\* a block that is never stored with the dynamic rules
initKeyFrames_unstored(keyFramesRule, keyFramesTimes, isFirstInit, ctx) ==
    createKeyFramesSheet(keyFramesRule, isFirstInit,
        parseKeyFrames(keyFramesTimes, keyFramesOnProp,
                       [ctx EXCEPT !.kfRules = << >>, !.anyDynamic = FALSE]))

\* StyleManager._initKeyFrames; processedKeyTimeRules and anyDynamic are
\* ctx.kfRules and ctx.anyDynamic
initKeyFrames(keyFramesRule, keyFramesTimes, isFirstInit, ctx) ==
    createKeyFramesSheet(keyFramesRule, isFirstInit,
        tieKeyFrames(keyFramesRule,
            parseKeyFrames(keyFramesTimes, keyFramesOnProp,
                           [ctx EXCEPT !.kfRules = << >>, !.anyDynamic = FALSE])))

\* the body of the handler named callback
Handle(callback, classLine, prop, value, ctx) ==
    CASE callback = "firstStatic" ->
            [ctx EXCEPT !.staticRules = PutProp(@, classLine, prop, value)]
      [] callback \in {"firstDynamic", "laterDynamic"} ->
            [ctx EXCEPT !.dynamicRules = ObjV(PutProp(Entries(@), classLine, prop, value))]
      [] callback \in {"firstKeyframes", "laterKeyframes"} ->
            initKeyFrames(prop, value, callback = "firstKeyframes", ctx)
      [] callback \in {"keyTimeStatic", "keyTimeDynamic"} ->
            [ctx EXCEPT !.kfRules = PutProp(@, classLine, prop, value),
                        !.anyDynamic = @ \/ callback = "keyTimeDynamic"]

RECURSIVE parseStyle(_, _, _, _)

\* ctx.trace after a call "parseStyle(classLine, makeResult, onProp)" was entered
walked(ctx) == [ctx EXCEPT !.trace = Append(@, "parseStyle")]

\* the body of the loop of parseStyle for one (prop, value) pair
parseStyleProp(classLine, prop, value, onProp, ctx) ==
    IF isWhenProp(prop, value)
    THEN LET origProp == SliceFrom(prop, Len(whenKey))
             code == FirstCode(origProp)
             subClassLine ==
                 (IF (code >= 65 /\ code <= 90) \/ (code >= 97 /\ code <= 122)
                  THEN classLine \o << "." >> ELSE classLine) \o origProp
         IN  parseStyle(subClassLine, value, onProp, ctx)
    ELSE IF isChildProp(prop, value)
    THEN IF isKeyframesProp(prop, value)
         THEN on(onProp, "keyframes", classLine, prop, value, ctx)
         ELSE IF isAbsoluteProp(prop, value)
         THEN parseStyle(SliceFrom(prop, 1), value, onProp, ctx)
         ELSE LET childClassLine ==
                      (IF isComponentName(prop) THEN classLine \o << " ", "." >>
                       ELSE classLine \o << " " >>) \o prop
              IN  parseStyle(childClassLine, value, onProp, ctx)
    ELSE IF isDynamicProp(prop, value)
    THEN on(onProp, "dynamic", classLine, prop, value, ctx)
    ELSE on(onProp, "static", classLine, prop, value, ctx)

\* the loop of parseStyle, "for (const prop in makeResult)", from entry i on
RECURSIVE parseStyleFrom(_, _, _, _, _)
parseStyleFrom(classLine, makeResult, i, onProp, ctx) ==
    IF i > Len(makeResult) \/ ctx.err # NoError THEN ctx
    ELSE parseStyleFrom(classLine, makeResult, i + 1, onProp,
            parseStyleProp(classLine, makeResult[i][1], makeResult[i][2], onProp, ctx))

\* parser.parseStyle
parseStyle(classLine, makeResult, onProp, ctx) ==
    IF TypeOf(makeResult) # "object" THEN walked(ctx)
    ELSE parseStyleFrom(classLine, Entries(makeResult), 1, onProp, walked(ctx))

(***************************************************************************)
(* StyleManager: initStyle and updateDynamicStyles                         *)
(***************************************************************************)

\* "const when = (param) => + whenKey + param": the unary plus applies to
\* whenKey first, and the sum of that number and param is a string
when(param) == ToStr(PlusStr(UnaryPlus(StrV(whenKey)), StrV(param)))

\* the arguments the definitions below pass to when, and the helper as the
\* value handed to makeStyle
WhenParams == {<< "S", "q", "u", "a", "r", "e" >>, << ":", "a", "c", "t", "i", "v", "e" >>}
WhenHelper == [param \in WhenParams |-> when(param)]

TypeStatic == << "s", "t", "a", "t", "i", "c" >>
TypeDynamic == << "d", "y", "n", "a", "m", "i", "c" >>

\* the registration with the default of the parameter type, whatever is passed
initializeComponent_default(initialized, component, type) ==
    Put(initialized, component, StrV(TypeStatic))

\* StyleManager._initializeComponent
initializeComponent(initialized, component, type) == Put(initialized, component, StrV(type))

\* a lookup that never finds the base rule
styleInitializedBefore_never(initialized, baseRule) == Undefined

\* StyleManager._styleInitializedBefore
styleInitializedBefore(initialized, baseRule) == Get(initialized, baseRule)

\* a lookup that hands out the static element as the dynamic one
getMemorizedSheets_static(known, fullRule) ==
    IF Get(known, fullRule) = Undefined THEN Undefined
    ELSE [Get(known, fullRule) EXCEPT !.dynamic = Get(known, fullRule).static]

\* StyleManager._getMemorizedSheets
getMemorizedSheets(known, fullRule) == Get(known, fullRule)

\* "for (const cssRule in staticRules)" of _firstInitStyle, from entry i on
RECURSIVE insertStaticRules(_, _, _)
insertStaticRules(staticRules, i, ctx) ==
    IF i > Len(staticRules) \/ ctx.err # NoError THEN ctx
    ELSE insertStaticRules(staticRules, i + 1,
            insertToNewSheet(staticRules[i][1], staticRules[i][2],
                             createStaticSheet(staticRules[i][1], ctx)))

\* "for (const cssRule in this._dynamicRules)" of _firstInitStyle, from entry i on
RECURSIVE createDynamicSheets(_, _, _)
createDynamicSheets(dynamicRules, i, ctx) ==
    IF i > Len(dynamicRules) \/ ctx.err # NoError THEN ctx
    ELSE createDynamicSheets(dynamicRules, i + 1, createDynamicSheet(dynamicRules[i][1], ctx))

\* the three steps of _firstInitStyle after the walk, each on the context
\* the step before left
insertAllStatic(ctx) == insertStaticRules(ctx.staticRules, 1, ctx)
createAllDynamic(ctx) == createDynamicSheets(Entries(ctx.dynamicRules), 1, ctx)
rememberType(baseRule, ctx) ==
    IF ctx.err # NoError THEN ctx
    ELSE [ctx EXCEPT !.initializedComponents =
                initializeComponent(@, baseRule,
                    IF Len(Entries(ctx.dynamicRules)) > 0 THEN TypeDynamic ELSE TypeStatic)]

\* StyleManager._firstInitStyle
firstInitStyle(baseRule, makeResult, ctx) ==
    rememberType(baseRule,
        createAllDynamic(
            insertAllStatic(
                parseStyle(baseRule, makeResult, firstOnProp,
                           [ctx EXCEPT !.staticRules = << >>, !.dynamicRules = EmptyObj]))))

\* the order of the calls an initStyle() makes: ctx.trace after the call
\* "this._makeStyle(when)" and after a call "this._styleInitializedBefore()"
called(ctx) == [ctx EXCEPT !.trace = Append(@, "makeStyle")]
looked(ctx) == [ctx EXCEPT !.trace = Append(@, "styleInitializedBefore")]

\* StyleManager._laterInitStyle
laterInitStyle(baseRule, makeResult, ctx) ==
    IF StrictNotEqual(Not(styleInitializedBefore(ctx.initializedComponents, baseRule)),
                      StrV(TypeDynamic))
    THEN looked(ctx)
    ELSE parseStyle(baseRule, makeResult, laterOnProp,
                    [looked(ctx) EXCEPT !.dynamicRules = EmptyObj])

\* "if (!this._styleInitializedBefore()) ... else ..." of initStyle, on the
\* context after the lookup
initStyleWith(baseRule, makeResult, ctx) ==
    IF ~Truthy(styleInitializedBefore(ctx.initializedComponents, baseRule))
    THEN firstInitStyle(baseRule, makeResult, ctx)
    ELSE laterInitStyle(baseRule, makeResult, ctx)

\* an initStyle() that asks the registry before it calls the provider
initStyle_lookupFirst(baseRule, makeResult, ctx) ==
    initStyleWith(baseRule, makeResult, called(looked(ctx)))

\* StyleManager.initStyle: makeResult is what "this._makeStyle(when)" returns
initStyle(baseRule, makeResult, ctx) ==
    initStyleWith(baseRule, makeResult, looked(called(ctx)))

\* "for (const ruleLine in this._dynamicRules)" of updateDynamicStyles, from entry i on
RECURSIVE updateRuleLines(_, _, _, _)
updateRuleLines(dynamicRules, i, componentInstance, ctx) ==
    IF i > Len(dynamicRules) \/ ctx.err # NoError THEN ctx
    ELSE LET ruleLine == dynamicRules[i][1]
             ruleSet == dynamicRules[i][2]
             memory == getMemorizedSheets(ctx.knownStyles, ruleLine)
         IN  IF memory = Undefined THEN [ctx EXCEPT !.err = TypeError]
             ELSE updateRuleLines(dynamicRules, i + 1, componentInstance,
                     insertRulesToSheet(ruleLine, ruleSet, memory.dynamic, componentInstance, ctx))

\* the earlier draft's update, which reads the registry entry of the base
\* rule before it looks at the dynamic rules
updateDynamicStyles_draft(dynamicRules, componentInstance, ctx) ==
    IF getMemorizedSheets(ctx.knownStyles, ctx.stamp.rule) = Undefined
    THEN [ctx EXCEPT !.err = TypeError]
    ELSE updateRuleLines(Entries(dynamicRules), 1, componentInstance, ctx)

\* StyleManager.updateDynamicStyles
updateDynamicStyles(dynamicRules, componentInstance, ctx) ==
    updateRuleLines(Entries(dynamicRules), 1, componentInstance, ctx)

(***************************************************************************)
(* Component classes: the makeStyle() of each                              *)
(***************************************************************************)

\* { k1: v1, k2: v2, ... }: an object literal, its pairs in source order
RECURSIVE PutAll(_, _)
PutAll(entries, pairs) ==
    IF Len(pairs) = 0 THEN entries
    ELSE PutAll(Put(entries, pairs[1][1], pairs[1][2]), Tail(pairs))

ObjLit(pairs) == ObjV(PutAll(<< >>, pairs))

S_color == << "c", "o", "l", "o", "r" >>
S_backgroundColor == << "b", "a", "c", "k", "g", "r", "o", "u", "n", "d", "C", "o", "l", "o", "r" >>
S_size == << "s", "i", "z", "e" >>
S_opacity == << "o", "p", "a", "c", "i", "t", "y" >>
S_from == << "f", "r", "o", "m" >>
S_to == << "t", "o" >>
S_white == << "w", "h", "i", "t", "e" >>
S_red == << "r", "e", "d" >>
S_blue == << "b", "l", "u", "e" >>
S_div == << "d", "i", "v" >>

ClassNames ==
    [Widget |-> << "W", "i", "d", "g", "e", "t" >>, FirstTest |-> << "F", "i", "r", "s", "t", "T", "e", "s", "t" >>, Plain |-> << "P", "l", "a", "i", "n" >>,
     Fade |-> << "F", "a", "d", "e" >>, Steady |-> << "S", "t", "e", "a", "d", "y" >>, Comp |-> << "C", "o", "m", "p" >>,
     Multi |-> << "M", "u", "l", "t", "i" >>, Twice |-> << "T", "w", "i", "c", "e" >>, Vary |-> << "V", "a", "r", "y" >>,
     Brittle |-> << "B", "r", "i", "t", "t", "l", "e" >>,
     Reach |-> << "R", "e", "a", "c", "h" >>,
     Parent |-> << "P", "a", "r", "e", "n", "t" >>, Qualified |-> << "Q", "u", "a", "l", "i", "f", "i", "e", "d" >>, Absolute |-> << "A", "b", "s", "o", "l", "u", "t", "e" >>,
     Timed |-> << "T", "i", "m", "e", "d" >>, Leafy |-> << "L", "e", "a", "f", "y" >>,
     \* a class expression without a name: its constructor.name is ""
     Anon |-> << >>]

Classes == DOMAIN ClassNames

\* the props a class reads in makeStyle(): only Vary depends on them
Variants(c) == IF c = "Vary" THEN {0, 1} ELSE {0}

\* componentInstance.makeStyle(when) of an instance of class c with props
\* variant; env is the closure the call creates ("let numUpdates = 0")
makeStyle(c, variant, When, env) ==
    CASE c = "Widget" ->
            \* { color: "white", backgroundColor: "red", size: () => counter++ }
            ObjLit(<< << S_color, StrV(S_white) >>,
                      << S_backgroundColor, StrV(S_red) >>,
                      << S_size, FnV("counter", env, Undefined) >> >>)
      [] c = "FirstTest" ->
            ObjLit(<< << S_color, StrV(S_white) >>,
                      << S_backgroundColor, StrV(S_red) >>,
                      << S_size, FnV("counter", env, Undefined) >>,
                      << << "@", "k", "e", "y", "f", "r", "a", "m", "e", "s", " ", "F", "i", "r", "s", "t", "T", "e", "s", "t", "-", "A", "n", "i", "m", "a", "t", "i", "o", "n" >>,
                         ObjLit(<< << S_from, ObjLit(<< << S_opacity, FnV("peek5", env, Undefined) >> >>) >>,
                                   << << "6", "0" >>, ObjLit(<< << S_opacity, NumV(1) >> >>) >>,
                                   << S_to, ObjLit(<< << S_size, FnV("peek", env, Undefined) >> >>) >> >>) >> >>)
      [] c = "Plain" ->
            \* the README's static properties
            ObjLit(<< << S_color, StrV(S_white) >>,
                      << S_backgroundColor, StrV(S_blue) >>,
                      << << "b", "a", "c", "k", "g", "r", "o", "u", "n", "d", "-", "c", "o", "l", "o", "r" >>, StrV(S_blue) >> >>)
      [] c = "Fade" ->
            \* @keyframes X { from: { opacity: 0 }, to: { opacity: (ref) => ref.state.o } }
            ObjLit(<< << << "@", "k", "e", "y", "f", "r", "a", "m", "e", "s", " ", "X" >>,
                         ObjLit(<< << S_from, ObjLit(<< << S_opacity, NumV(0) >> >>) >>,
                                   << S_to, ObjLit(<< << S_opacity, FnV("state", env, Undefined) >> >>) >> >>) >> >>)
      [] c = "Steady" ->
            \* a keyframes block without functions
            ObjLit(<< << S_color, FnV("const", env, StrV(S_red)) >>,
                      << << "@", "k", "e", "y", "f", "r", "a", "m", "e", "s", " ", "S" >>,
                         ObjLit(<< << S_from, ObjLit(<< << S_opacity, NumV(0) >> >>) >>,
                                   << << "6", "0" >>, ObjLit(<< << S_opacity, NumV(1) >> >>) >> >>) >> >>)
      [] c = "Comp" ->
            \* [when("Square")]: { [when(":active")]: { color: "blue" } }
            ObjLit(<< << When[<< "S", "q", "u", "a", "r", "e" >>],
                         ObjLit(<< << When[<< ":", "a", "c", "t", "i", "v", "e" >>],
                                      ObjLit(<< << S_color, StrV(S_blue) >> >>) >> >>) >> >>)
      [] c = "Multi" ->
            \* the base selector reached a second time through an absolute key
            ObjLit(<< << S_color, StrV(S_red) >>,
                      << << "=", ".", "M", "u", "l", "t", "i" >>,
                         ObjLit(<< << S_color, FnV("const", env, StrV(S_blue)) >> >>) >> >>)
      [] c = "Twice" ->
            \* one animation name defined at two levels of the definition
            ObjLit(<< << << "@", "k", "e", "y", "f", "r", "a", "m", "e", "s", " ", "T" >>,
                         ObjLit(<< << S_from, ObjLit(<< << S_opacity, NumV(0) >> >>) >> >>) >>,
                      << S_div,
                         ObjLit(<< << << "@", "k", "e", "y", "f", "r", "a", "m", "e", "s", " ", "T" >>,
                                      ObjLit(<< << S_to, ObjLit(<< << S_opacity, FnV("state", env, Undefined) >> >>) >> >>) >> >>) >> >>)
      [] c = "Brittle" ->
            \* a producer that throws from its second call on, in the second rule
            ObjLit(<< << S_color, FnV("const", env, StrV(S_red)) >>,
                      << S_div, ObjLit(<< << S_size, FnV("fragile", env, Undefined) >> >>) >> >>)
      [] c = "Reach" ->
            \* an absolute key that names the base rule of the class Plain
            ObjLit(<< << << "=", ".", "P", "l", "a", "i", "n" >>, ObjLit(<< << S_color, StrV(S_red) >> >>) >> >>)
      [] c = "Parent" ->
            \* the README's children: ChildComponent, div containing h1, >button
            ObjLit(<< << << "C", "h", "i", "l", "d", "C", "o", "m", "p", "o", "n", "e", "n", "t" >>, ObjLit(<< << S_color, StrV(S_white) >> >>) >>,
                      << S_div, ObjLit(<< << << "h", "1" >>, ObjLit(<< << S_color, StrV(S_red) >> >>) >> >>) >>,
                      << << ">", "b", "u", "t", "t", "o", "n" >>, ObjLit(<< << S_backgroundColor, StrV(S_blue) >> >>) >> >>)
      [] c = "Qualified" ->
            \* the README's state qualifiers, their keys spelled with the prefix
            ObjLit(<< << << "w", "h", "e", "n", "=", "S", "q", "u", "a", "r", "e" >>,
                         ObjLit(<< << S_color, StrV(S_red) >>,
                                   << << "w", "h", "e", "n", "=", ":", "a", "c", "t", "i", "v", "e" >>, ObjLit(<< << S_color, StrV(S_blue) >> >>) >> >>) >>,
                      << << "w", "h", "e", "n", "=", ":", "a", "c", "t", "i", "v", "e" >>, ObjLit(<< << S_color, StrV(S_white) >> >>) >>,
                      << << "w", "h", "e", "n", "=", "s", "e", "l", "e", "c", "t", "e", "d" >>,
                         ObjLit(<< << S_div, ObjLit(<< << S_color, StrV(S_red) >> >>) >> >>) >> >>)
      [] c = "Absolute" ->
            \* the README's absolute property, nested, with a qualifier and a child
            ObjLit(<< << S_div,
                         ObjLit(<< << << "=", ".", "O", "u", "t", "e", "r", "-", "C", "o", "n", "t", "a", "i", "n", "e", "r" >>,
                                      ObjLit(<< << S_color, StrV(S_red) >>,
                                                << << "w", "h", "e", "n", "=", "O", "p", "e", "n" >>, ObjLit(<< << S_color, StrV(S_blue) >> >>) >>,
                                                << << ">", "h", "1" >>, ObjLit(<< << S_color, StrV(S_white) >> >>) >> >>) >> >>) >> >>)
      [] c = "Timed" ->
            \* the README's animation: the time keys from, 50, "60%" and To
            ObjLit(<< << S_color, StrV(S_white) >>,
                      << << "@", "k", "e", "y", "f", "r", "a", "m", "e", "s", " ", "T", "i", "m", "e", "d", "-", "F", "a", "d", "e" >>,
                         ObjLit(<< << S_from, ObjLit(<< << << "m", "a", "r", "g", "i", "n", "L", "e", "f", "t" >>, NumV(0) >> >>) >>,
                                   << << "5", "0" >>, ObjLit(<< << S_opacity, NumV(1) >> >>) >>,
                                   << << "6", "0", "%" >>, ObjLit(<< << S_opacity, NumV(0) >> >>) >>,
                                   << << "T", "o" >>, ObjLit(<< << S_opacity, NumV(1) >> >>) >> >>) >> >>)
      [] c = "Leafy" ->
            \* values that are not objects: strings, a number and a function, one of
            \* the strings under a key with the prefix
            ObjLit(<< << S_color, StrV(S_white) >>,
                      << S_size, NumV(3) >>,
                      << << "w", "h", "e", "n", "=", ":", "h", "o", "v", "e", "r" >>, StrV(S_red) >>,
                      << << "f", "o", "n", "t", "S", "i", "z", "e" >>, FnV("const", env, StrV(S_red)) >>,
                      << S_div, ObjLit(<< << S_color, StrV(S_blue) >> >>) >> >>)
      [] c = "Anon" ->
            \* { color: "blue" }
            ObjLit(<< << S_color, StrV(S_blue) >> >>)
      [] c = "Vary" ->
            \* a definition that depends on the instance's props
            IF variant = 0
            THEN ObjLit(<< << S_size, FnV("counter", env, Undefined) >> >>)
            ELSE ObjLit(<< << S_color, StrV(S_white) >> >>)

\* "const rule = '.' + componentInstance.componentName" of createComponentManager
BaseRuleOf(c) == << "." >> \o ClassNames[c]

\* a mounted component instance, as the reference handed to the producers
Component == ObjLit(<< << << "s", "t", "a", "t", "e" >>, ObjLit(<< << << "o" >>, NumV(1) >> >>) >> >>)

(***************************************************************************)
(* The state machine                                                       *)
(***************************************************************************)

\* bounds of the model
MaxManagers == 2
MaxInits == 2
MaxUpdates == 2

\* the sets of component classes a program defines: the classes named in
\* WalkClasses are kept for the programs of WalkWorlds
WalkClasses == {"Parent", "Qualified", "Absolute", "Timed", "Leafy", "Reach"}
UnnamedClasses == {"Anon"}
Worlds == {{c} : c \in Classes \ (WalkClasses \cup UnnamedClasses)}

\* the programs of one component class that exercise the walker's key forms,
\* and a program of two classes, one of which reaches the selector of the other
WalkWorlds == {{c} : c \in WalkClasses \cup {"Plain"}} \cup {{"Plain", "Reach"}}

VARIABLES
    world,                  \* the component classes of the program
    managers,               \* the StyleManager instances, in creation order; of each:
                            \*   class, variant  the component it belongs to
                            \*   baseRule        this._baseRule
                            \*   dynamicRules    this._dynamicRules
                            \*   inits, updates  history: the initStyle() calls and the
                            \*                   completed updateDynamicStyles() calls
                            \*   evals           history: those of the completed calls that
                            \*                   found a function in this._dynamicRules
                            \*   compiled        history: the closure of the makeStyle()
                            \*                   call it first-compiled, 0 when it did not
                            \*   staticRules     history: staticRules of that first compile
    knownStyles,            \* StyleManager._knownStyles
    initializedComponents,  \* StyleManager._initializedComponents
    sheets,                 \* the style elements, in creation order
    envs,                   \* numUpdates of every makeStyle() closure that a
                            \* manager still refers to (the others are garbage)
    last,                   \* history: the last operation (op), the manager it ran on
                            \* (m), the exception it raised (err), whether it was
                            \* the first initStyle() of its base rule (first) and
                            \* whether it was given no component instance (noRef),
                            \* the closure of its makeStyle() call (env)
    reported,               \* history: the handler calls of the last initStyle()
    invoked,                \* history: the producer calls of the last operation
    components,             \* the component instances: for each, its componentName,
                            \* its hidden-prop flag this[RSKey].hiddenPropEnabled,
                            \* its props.hidden, and, as history, the last call on it
    hiddenPropEnabledGlobally,  \* the module variable of index.mjs
    unnamed                 \* the unnamed-component registry: _unnamedComponentNames
                            \* (names), _unnamedComponentConstructors (constructors),
                            \* _unnamedCount (count), and, as history, the constructor
                            \* and the result of every generateName call (returned)

vars == << world, managers, knownStyles, initializedComponents, sheets, envs,
           last, reported, invoked, components, hiddenPropEnabledGlobally, unnamed >>

Managers == 1..Len(managers)

(***************************************************************************)
(* The unnamed-component registry (unnamedComponents.mjs)                   *)
(***************************************************************************)

\* component constructors without a name of their own: the class expression
\* of a factory evaluated twice (two constructors, one source text) and
\* another class expression. A constructor used as a property key is
\* converted to a string, which for a class is its source text
Constructors ==
    {[id |-> 1, source |-> << "c", "l", "a", "s", "s", " ", "e", "x", "t", "e", "n", "d", "s", " ", "C", " ", "{", " ", "f", " ", "}" >>],
     [id |-> 2, source |-> << "c", "l", "a", "s", "s", " ", "e", "x", "t", "e", "n", "d", "s", " ", "C", " ", "{", " ", "f", " ", "}" >>],
     [id |-> 3, source |-> << "c", "l", "a", "s", "s", " ", "e", "x", "t", "e", "n", "d", "s", " ", "C", " ", "{", " ", "g", " ", "}" >>]}

\* the registry after "constructor()" of the singleton
NoNames == [names |-> << >>, constructors |-> << >>, count |-> 0, returned |-> << >>]

prefix == << "U", "n", "n", "a", "m", "e", "d" >>

\* the name "this.prefix + this._unnamedCount++" of generateName in registry reg
nextName(reg) == prefix \o NatToString(reg.count)

\* generateName(constructor): the registry after the call; the name it
\* returns is the last entry of returned
generateName(reg, constructor) ==
    [names |-> Put(reg.names, constructor.source, nextName(reg)),
     constructors |-> Put(reg.constructors, nextName(reg), constructor),
     count |-> reg.count + 1,
     returned |-> Append(reg.returned, [constructor |-> constructor, name |-> nextName(reg)])]

\* getName(constructor)
getName(reg, constructor) == Get(reg.names, constructor.source)

\* getConstructor(name)
getConstructor(reg, name) == Get(reg.constructors, name)

RECURSIVE SumOver(_, _)
SumOver(f, n) == IF n = 0 THEN 0 ELSE f[n] + SumOver(f, n - 1)

\* the initStyle() calls made so far on the managers of baseRule
InitCalls(baseRule) ==
    SumOver([m \in Managers |-> IF managers[m].baseRule = baseRule THEN managers[m].inits ELSE 0],
            Len(managers))

TotalInits == SumOver([m \in Managers |-> managers[m].inits], Len(managers))
TotalUpdates == SumOver([m \in Managers |-> managers[m].updates], Len(managers))

\* the updateDynamicStyles() calls so far that a value producer ended
TotalThrown == SumOver([m \in Managers |-> managers[m].thrown], Len(managers))

\* the context an operation starts in
Context(stamp, dynamicRules, envs0) ==
    [staticRules |-> << >>, dynamicRules |-> dynamicRules, kfRules |-> << >>,
     anyDynamic |-> FALSE, knownStyles |-> knownStyles,
     initializedComponents |-> initializedComponents, sheets |-> sheets,
     envs |-> envs0, err |-> NoError, reported |-> << >>, invoked |-> << >>,
     trace |-> << >>, stamp |-> stamp, healthy |-> -1]

\* the closures the function values inside a value refer to
RECURSIVE ClosuresOf(_)
ClosuresOf(v) ==
    IF v.t = "fn" THEN {v.env}
    ELSE IF v.t = "obj"
    THEN UNION {ClosuresOf(v.entries[i][2]) : i \in 1..Len(v.entries)}
    ELSE {}

InitIn(worlds) ==
    /\ world \in worlds
    /\ managers = << >>
    /\ knownStyles = << >>
    /\ initializedComponents = << >>
    /\ sheets = << >>
    /\ envs = << >>
    /\ last = [op |-> "none", m |-> 0, err |-> NoError, first |-> FALSE, noRef |-> FALSE,
               env |-> 0, trace |-> << >>]
    /\ reported = << >>
    /\ invoked = << >>
    /\ unnamed = NoNames
    /\ components = << >>
    /\ hiddenPropEnabledGlobally = TRUE

Init == InitIn(Worlds)

\* makeStyleManagerFactory.createComponentManager(componentInstance) for a
\* new instance of class c: new StyleManager(rule, makeStyle, ...)
CreateManager(c, variant) ==
    /\ Len(managers) < MaxManagers
    /\ c \in world
    /\ managers' = Append(managers,
            [class |-> c, variant |-> variant, baseRule |-> BaseRuleOf(c),
             dynamicRules |-> Null, inits |-> 0, updates |-> 0, evals |-> 0,
             thrown |-> 0,
             compiled |-> 0, staticRules |-> << >>])
    /\ last' = [op |-> "new", m |-> Len(managers) + 1, err |-> NoError, first |-> FALSE,
                noRef |-> FALSE, env |-> 0, trace |-> << >>]
    /\ UNCHANGED << world, knownStyles, initializedComponents, sheets, envs, reported, invoked,
                    components, hiddenPropEnabledGlobally, unnamed >>

\* the state after an initStyle() call of manager m that ended in context
\* ctx: env is the closure of its makeStyle() call, first tells whether the
\* base rule was not compiled before
Initialised(m, env, first, ctx) ==
    /\ managers' = [managers EXCEPT ![m] =
            [@ EXCEPT !.dynamicRules = ctx.dynamicRules, !.inits = @ + 1,
                      !.compiled = IF first THEN env ELSE @,
                      !.staticRules = IF first THEN ctx.staticRules ELSE @]]
    /\ knownStyles' = ctx.knownStyles
    /\ initializedComponents' = ctx.initializedComponents
    /\ sheets' = ctx.sheets
    /\ envs' = IF env \in ClosuresOf(ctx.dynamicRules) THEN ctx.envs
               ELSE SubSeq(ctx.envs, 1, env - 1)
    /\ last' = [op |-> "initStyle", m |-> m, err |-> ctx.err, first |-> first,
                noRef |-> FALSE, env |-> env, trace |-> ctx.trace]
    /\ reported' = ctx.reported
    /\ invoked' = ctx.invoked

\* manager.initStyle()
InitStyle(m) ==
    /\ TotalInits < MaxInits
    /\ Initialised(m, Len(envs) + 1,
            ~Truthy(styleInitializedBefore(initializedComponents, managers[m].baseRule)),
            initStyle(managers[m].baseRule,
                      makeStyle(managers[m].class, managers[m].variant, WhenHelper, Len(envs) + 1),
                      Context([op |-> "initStyle", rule |-> managers[m].baseRule,
                               nth |-> InitCalls(managers[m].baseRule) + 1],
                              managers[m].dynamicRules, Append(envs, 0))))
    /\ UNCHANGED << world, components, hiddenPropEnabledGlobally, unnamed >>

\* the references a caller may hand to updateDynamicStyles
Refs == {Undefined, Null, Component}

\* the state after an updateDynamicStyles() call of manager m that ended in
\* context ctx
Updated(m, componentInstance, ctx) ==
    /\ managers' = [managers EXCEPT ![m] =
            [@ EXCEPT !.updates = IF ctx.err = NoError THEN @ + 1 ELSE @,
                      !.thrown = IF ctx.err = ProducerError THEN @ + 1 ELSE @,
                      !.evals = IF ctx.err = NoError /\ ClosuresOf(managers[m].dynamicRules) # {}
                                THEN @ + 1 ELSE @]]
    /\ knownStyles' = ctx.knownStyles
    /\ initializedComponents' = ctx.initializedComponents
    /\ sheets' = ctx.sheets
    /\ envs' = ctx.envs
    /\ last' = [op |-> "updateDynamicStyles", m |-> m, err |-> ctx.err, first |-> FALSE,
                noRef |-> ~Truthy(componentInstance), env |-> 0, trace |-> ctx.trace]
    /\ invoked' = ctx.invoked

\* manager.updateDynamicStyles(componentInstance)
UpdateDynamicStyles(m, componentInstance) ==
    /\ TotalUpdates + TotalThrown < MaxUpdates
    /\ Updated(m, componentInstance,
            updateDynamicStyles(managers[m].dynamicRules, componentInstance,
                Context([op |-> "updateDynamicStyles", rule |-> managers[m].baseRule,
                         nth |-> managers[m].updates + 1],
                        managers[m].dynamicRules, envs)))
    /\ UNCHANGED << world, reported, components, hiddenPropEnabledGlobally, unnamed >>

Next ==
    \/ \E c \in Classes : \E variant \in Variants(c) : CreateManager(c, variant)
    \/ \E m \in Managers : InitStyle(m)
    \/ \E m \in Managers : \E componentInstance \in Refs : UpdateDynamicStyles(m, componentInstance)

Spec == Init /\ [][Next]_vars

\* manager.initStyle() with createStaticSheet and createDynamicSheet
\* functions that throw after healthy calls
MaxHealthy == 2

FailingInitStyle(m, healthy) ==
    /\ TotalInits < MaxInits
    /\ Initialised(m, Len(envs) + 1,
            ~Truthy(styleInitializedBefore(initializedComponents, managers[m].baseRule)),
            initStyle(managers[m].baseRule,
                      makeStyle(managers[m].class, managers[m].variant, WhenHelper, Len(envs) + 1),
                      [Context([op |-> "initStyle", rule |-> managers[m].baseRule,
                                nth |-> InitCalls(managers[m].baseRule) + 1],
                               managers[m].dynamicRules, Append(envs, 0))
                          EXCEPT !.healthy = healthy]))
    /\ UNCHANGED << world, components, hiddenPropEnabledGlobally, unnamed >>

FailWorlds == {{"Widget"}, {"Parent"}, {"Steady"}, {"Plain"}}

FailNext ==
    \/ \E c \in Classes : \E variant \in Variants(c) : CreateManager(c, variant)
    \/ \E m \in Managers : InitStyle(m)
    \/ \E m \in Managers : \E healthy \in 0..MaxHealthy : FailingInitStyle(m, healthy)

FailInit == InitIn(FailWorlds)
FailSpec == FailInit /\ [][FailNext]_vars

\* the same operations on the programs of WalkWorlds
WalkInit == InitIn(WalkWorlds)
WalkSpec == WalkInit /\ [][Next]_vars

(***************************************************************************)
(* The lifecycle binding: components built by MyComponentFrom              *)
(***************************************************************************)

MaxEvents == 3

\* the lifecycle methods a component class may define itself
Hooks == [mount : BOOLEAN, update : BOOLEAN]

\* the programs whose components are built on the lifecycle binding
LifecycleWorlds == {{"Widget"}, {"Plain"}, {"Anon"}}

TotalEvents == SumOver([m \in Managers |-> managers[m].events], Len(managers))

\* a call made by a wrapper, entered in the trace unless an exception is
\* on its way out
note(ctx, what) == IF ctx.err # NoError THEN ctx ELSE [ctx EXCEPT !.trace = Append(@, what)]

\* "this[RSKey].styleManager.updateDynamicStyles()": no argument is handed over
forceUpdateStyles(ctx) ==
    IF ctx.err # NoError THEN ctx
    ELSE updateDynamicStyles(ctx.dynamicRules, Undefined, note(ctx, "updateDynamicStyles"))

\* the componentDidMount installed by _bindComponentDidMount
componentDidMount(baseRule, makeResult, ctx) ==
    forceUpdateStyles(
        note(note(initStyle(baseRule, makeResult, note(ctx, "initStyle")),
                  "initStyle returned"),
             "origMount"))

\* the componentDidUpdate installed by _bindComponentDidUpdate
componentDidUpdate(ctx) == forceUpdateStyles(note(ctx, "origUpdate"))

\* "new (MyComponentFrom(ReactClass))(props)" for a class c that defines the
\* lifecycle methods named in hooks: the constructor keeps the original
\* methods, binds the wrappers and creates the style manager
ConstructorOf(c) == CHOOSE constructor \in Constructors : constructor.id = 3

\* the registry after "this.constructor.name || generateName(this.constructor)"
\* in the constructor of an instance of class c
namedIn(reg, c) ==
    IF Len(ClassNames[c]) > 0 THEN reg ELSE generateName(reg, ConstructorOf(c))

\* this[RSKey].componentName of a new instance of class c, made in registry reg
componentName(reg, c) ==
    IF Len(ClassNames[c]) > 0 THEN ClassNames[c] ELSE nextName(reg)

Construct(c, variant, hooks) ==
    /\ Len(managers) < MaxManagers
    /\ c \in world
    /\ unnamed' = namedIn(unnamed, c)
    /\ managers' = Append(managers,
            [class |-> c, variant |-> variant,
             baseRule |-> << "." >> \o componentName(unnamed, c),
             dynamicRules |-> Null, inits |-> 0, updates |-> 0, evals |-> 0,
             thrown |-> 0, compiled |-> 0, staticRules |-> << >>,
             hooks |-> hooks, mounted |-> FALSE, events |-> 0, calls |-> << >>])
    /\ last' = [op |-> "new", m |-> Len(managers) + 1, err |-> NoError, first |-> FALSE,
                noRef |-> FALSE, env |-> 0, trace |-> << >>]
    /\ UNCHANGED << world, knownStyles, initializedComponents, sheets, envs, reported, invoked,
                    components, hiddenPropEnabledGlobally >>

\* the state after a lifecycle event op of the component of manager m whose
\* handler ended in context ctx; env is the closure of the makeStyle() call
\* of the handler, 0 when it made none
Delivered(op, m, env, first, ctx) ==
    /\ managers' = [managers EXCEPT ![m] =
            [@ EXCEPT !.dynamicRules = ctx.dynamicRules,
                      !.inits = IF env # 0 THEN @ + 1 ELSE @,
                      !.compiled = IF first THEN env ELSE @,
                      !.staticRules = IF first THEN ctx.staticRules ELSE @,
                      !.updates = IF ctx.err = NoError /\ ctx.trace # << >> THEN @ + 1 ELSE @,
                      !.mounted = @ \/ op = "componentDidMount",
                      !.events = @ + 1,
                      !.calls = @ \o ctx.trace]]
    /\ knownStyles' = ctx.knownStyles
    /\ initializedComponents' = ctx.initializedComponents
    /\ sheets' = ctx.sheets
    /\ envs' = IF env = 0 \/ env \in ClosuresOf(ctx.dynamicRules) THEN ctx.envs
               ELSE SubSeq(ctx.envs, 1, env - 1)
    /\ last' = [op |-> op, m |-> m, err |-> ctx.err, first |-> first, noRef |-> TRUE,
                env |-> env, trace |-> ctx.trace]
    /\ reported' = ctx.reported
    /\ invoked' = ctx.invoked

\* React mounts the component: it calls componentDidMount when the
\* instance has one, and the instance has the wrapper only when its class
\* defines the method
Mount(m) ==
    /\ TotalEvents < MaxEvents
    /\ ~managers[m].mounted
    /\ IF managers[m].hooks.mount
       THEN Delivered("componentDidMount", m, Len(envs) + 1,
                ~Truthy(styleInitializedBefore(initializedComponents, managers[m].baseRule)),
                componentDidMount(managers[m].baseRule,
                    makeStyle(managers[m].class, managers[m].variant, WhenHelper, Len(envs) + 1),
                    Context([op |-> "initStyle", rule |-> managers[m].baseRule,
                             nth |-> InitCalls(managers[m].baseRule) + 1],
                            managers[m].dynamicRules, Append(envs, 0))))
       ELSE Delivered("componentDidMount", m, 0, FALSE,
                Context([op |-> "none", rule |-> managers[m].baseRule, nth |-> 0],
                        managers[m].dynamicRules, envs))
    /\ UNCHANGED << world, components, hiddenPropEnabledGlobally, unnamed >>

\* React updates the mounted component: it calls componentDidUpdate when
\* the instance has one
Update(m) ==
    /\ TotalEvents < MaxEvents
    /\ managers[m].mounted
    /\ IF managers[m].hooks.update
       THEN Delivered("componentDidUpdate", m, 0, FALSE,
                componentDidUpdate(
                    Context([op |-> "updateDynamicStyles", rule |-> managers[m].baseRule,
                             nth |-> managers[m].updates + 1],
                            managers[m].dynamicRules, envs)))
       ELSE Delivered("componentDidUpdate", m, 0, FALSE,
                Context([op |-> "none", rule |-> managers[m].baseRule, nth |-> 0],
                        managers[m].dynamicRules, envs))
    /\ UNCHANGED << world, components, hiddenPropEnabledGlobally, unnamed >>

\* component.forceUpdateStyles(), a public method of every instance
ForceUpdateStyles(m) ==
    /\ TotalEvents < MaxEvents
    /\ Delivered("forceUpdateStyles", m, 0, FALSE,
            forceUpdateStyles(
                Context([op |-> "updateDynamicStyles", rule |-> managers[m].baseRule,
                         nth |-> managers[m].updates + 1],
                        managers[m].dynamicRules, envs)))
    /\ UNCHANGED << world, components, hiddenPropEnabledGlobally, unnamed >>

LifecycleNext ==
    \/ \E c \in Classes : \E variant \in Variants(c) : \E hooks \in Hooks :
           Construct(c, variant, hooks)
    \/ \E m \in Managers : Mount(m)
    \/ \E m \in Managers : Update(m)
    \/ \E m \in Managers : ForceUpdateStyles(m)

LifecycleInit == InitIn(LifecycleWorlds)
LifecycleSpec == LifecycleInit /\ [][LifecycleNext]_vars

(***************************************************************************)
(* The unnamed-component registry on its own                               *)
(***************************************************************************)

MaxNames == 4

\* unnamedComponentHandler.generateName(constructor)
GenerateName(constructor) ==
    /\ Len(unnamed.returned) < MaxNames
    /\ unnamed' = generateName(unnamed, constructor)
    /\ UNCHANGED << world, managers, knownStyles, initializedComponents, sheets, envs,
                    last, reported, invoked, components, hiddenPropEnabledGlobally >>

NamesNext == \E constructor \in Constructors : GenerateName(constructor)

NamesInit == InitIn({{}})
NamesSpec == NamesInit /\ [][NamesNext]_vars

(***************************************************************************)
(* The hidden prop (index.mjs)                                             *)
(*                                                                         *)
(* What render() returns is a JSX element (an object with type and props), *)
(* an array of them, or a value that is no object.                         *)
(***************************************************************************)

Fragment == [t |-> "symbol", s |-> "react.fragment"]
ArrV(items) == [t |-> "arr", items |-> items]
isArray(v) == v.t = "arr"

S_type == << "t", "y", "p", "e" >>
S_props == << "p", "r", "o", "p", "s" >>
S_className == << "c", "l", "a", "s", "s", "N", "a", "m", "e" >>
S_children == << "c", "h", "i", "l", "d", "r", "e", "n" >>
S_none == << "n", "o", "n", "e" >>

Element(type, className, children) ==
    ObjV(<< << S_type, type >>,
            << S_props, ObjV(<< << S_className, className >>, << S_children, children >> >>) >> >>)

\* str.split(sep) for a separator of one character
RECURSIVE split(_, _)
split(str, sep) ==
    IF \E i \in 1..Len(str) : str[i] = sep
    THEN LET i == CHOOSE i \in 1..Len(str) : str[i] = sep /\ \A j \in 1..(i - 1) : str[j] # sep
         IN  << SubSeq(str, 1, i - 1) >> \o split(SubSeq(str, i + 1, Len(str)), sep)
    ELSE << str >>

\* array.includes(x)
includes(array, x) == \E i \in 1..Len(array) : array[i] = x

\* _getChildJSXWithClass(className, jsxElementOrArray): the first element, in
\* depth-first order, whose className holds className; null if there is none
RECURSIVE getChildJSXWithClass(_, _)
RECURSIVE getChildIn(_, _, _)
getChildIn(className, children, i) ==
    IF i > Len(children) THEN Null
    ELSE LET nextElem == getChildJSXWithClass(className, children[i])
         IN  IF nextElem # Null THEN nextElem ELSE getChildIn(className, children, i + 1)

getChildJSXWithClass(className, jsxElementOrArray) ==
    IF isArray(jsxElementOrArray) THEN getChildIn(className, jsxElementOrArray.items, 1)
    ELSE IF ~Truthy(jsxElementOrArray) \/ TypeOf(jsxElementOrArray) # "object" THEN Null
    ELSE LET props == Entries(Get(Entries(jsxElementOrArray), S_props))
             elemClassName == Get(props, S_className)
             children == Get(props, S_children)
         IN  IF TypeOf(elemClassName) = "string"
                 /\ includes(split(elemClassName.s, " "), className)
             THEN jsxElementOrArray
             ELSE getChildIn(className,
                             IF isArray(children) THEN children.items ELSE << children >>, 1)

\* _handleHiddenProp(component, renderResult): what the call assigns to
\* childHiding.props.style.display, Undefined when it assigns nothing
handleHiddenProp(component, renderResult, globally) ==
    IF ~globally \/ ~Truthy(component.hiddenPropEnabled) THEN Undefined
    ELSE IF ~Truthy(getChildJSXWithClass(component.componentName, renderResult)) THEN Undefined
    ELSE IF Truthy(component.hidden) THEN StrV(S_none)
    ELSE Undefined

HiddenPropDisabledError(enableOrDisable) == << "HiddenPropDisabledError", enableOrDisable >>

\* a component after "constructor(props)", as far as the hidden prop goes
NewComponent(name, hidden) ==
    [componentName |-> name, hiddenPropEnabled |-> BoolV(TRUE), hidden |-> hidden,
     warned |-> 0, calls |-> 0,
     last |-> [op |-> "constructor", err |-> NoError, result |-> Undefined,
               display |-> Undefined]]

did(component, op, err, result, display) ==
    [component EXCEPT !.calls = @ + 1,
                      !.last = [op |-> op, err |-> err, result |-> result, display |-> display]]

\* an enableHiddenProp without the guard
enableHiddenProp_unguarded(component) ==
    did([component EXCEPT !.hiddenPropEnabled = BoolV(TRUE)], "enableHiddenProp", NoError,
        Undefined, Undefined)

\* component.enableHiddenProp()
enableHiddenProp(component) ==
    IF component.hiddenPropEnabled = Null
    THEN did(component, "enableHiddenProp", HiddenPropDisabledError("enable"),
             Undefined, Undefined)
    ELSE did([component EXCEPT !.hiddenPropEnabled = BoolV(TRUE)], "enableHiddenProp", NoError,
             Undefined, Undefined)

\* component.disableHiddenProp()
disableHiddenProp(component) ==
    IF component.hiddenPropEnabled = Null
    THEN did(component, "disableHiddenProp", HiddenPropDisabledError("disable"),
             Undefined, Undefined)
    ELSE did([component EXCEPT !.hiddenPropEnabled = BoolV(FALSE)], "disableHiddenProp", NoError,
             Undefined, Undefined)

\* the flag after the array and Fragment tests of the render wrapper
\* (warned counts the console warnings)
disableOn(component, fullResult) ==
    IF isArray(fullResult) \/ Get(Entries(fullResult), S_type) = Fragment
    THEN [component EXCEPT !.hiddenPropEnabled = Null,
                           !.warned = @ + (IF Truthy(component.hiddenPropEnabled) THEN 1 ELSE 0)]
    ELSE component

\* component.render(), the wrapper of _bindRender, when the render of the
\* class returns fullResult
render(component, fullResult, globally) ==
    IF ~isArray(fullResult) /\ (~Truthy(fullResult) \/ TypeOf(fullResult) # "object")
    THEN did(component, "render", NoError, fullResult, Undefined)
    ELSE did(disableOn(component, fullResult), "render", NoError, fullResult,
             handleHiddenProp(disableOn(component, fullResult), fullResult, globally))

MaxComponents == 1
MaxCalls == 3

S_Box == << "B", "o", "x" >>
S_span == << "s", "p", "a", "n" >>

\* the results of the render of a class named name
RenderResults(name) ==
    {Null,
     StrV(<< "t", "e", "x", "t" >>),
     Element(StrV(S_div), StrV(name), Undefined),
     Element(StrV(S_div), StrV(<< "w", "i", "d", "e", " " >> \o name), StrV(<< "t", "e", "x", "t" >>)),
     Element(StrV(S_div), Undefined, Element(StrV(S_span), StrV(name), Undefined)),
     Element(StrV(S_div), StrV(<< "o", "t", "h", "e", "r" >>), Undefined),
     ArrV(<< Element(StrV(S_div), StrV(name), Undefined), StrV(<< "t", "e", "x", "t" >>) >>),
     ArrV(<< >>),
     Element(Fragment, Undefined,
             ArrV(<< StrV(<< "t", "e", "x", "t" >>), Element(StrV(S_div), StrV(name), Undefined) >>))}

TotalCalls == SumOver([i \in 1..Len(components) |-> components[i].calls], Len(components))

HiddenFrame ==
    UNCHANGED << world, managers, knownStyles, initializedComponents, sheets, envs,
                 last, reported, invoked, unnamed >>

\* new Class(props)
NewInstance(hidden) ==
    /\ Len(components) < MaxComponents
    /\ components' = Append(components, NewComponent(S_Box, hidden))
    /\ UNCHANGED hiddenPropEnabledGlobally
    /\ HiddenFrame

Render(c, fullResult) ==
    /\ TotalCalls < MaxCalls
    /\ components' = [components EXCEPT ![c] = render(@, fullResult, hiddenPropEnabledGlobally)]
    /\ UNCHANGED hiddenPropEnabledGlobally
    /\ HiddenFrame

EnableHiddenProp(c) ==
    /\ TotalCalls < MaxCalls
    /\ components' = [components EXCEPT ![c] = enableHiddenProp(@)]
    /\ UNCHANGED hiddenPropEnabledGlobally
    /\ HiddenFrame

DisableHiddenProp(c) ==
    /\ TotalCalls < MaxCalls
    /\ components' = [components EXCEPT ![c] = disableHiddenProp(@)]
    /\ UNCHANGED hiddenPropEnabledGlobally
    /\ HiddenFrame

\* disableHiddenProps() and enableHiddenProps() of the public interface
disableHiddenProps ==
    /\ hiddenPropEnabledGlobally
    /\ hiddenPropEnabledGlobally' = FALSE
    /\ UNCHANGED components
    /\ HiddenFrame

enableHiddenProps ==
    /\ ~hiddenPropEnabledGlobally
    /\ hiddenPropEnabledGlobally' = TRUE
    /\ UNCHANGED components
    /\ HiddenFrame

HiddenNext ==
    \/ \E hidden \in {BoolV(TRUE), BoolV(FALSE)} : NewInstance(hidden)
    \/ \E c \in 1..Len(components) : \E fullResult \in RenderResults(S_Box) : Render(c, fullResult)
    \/ \E c \in 1..Len(components) : EnableHiddenProp(c)
    \/ \E c \in 1..Len(components) : DisableHiddenProp(c)
    \/ disableHiddenProps
    \/ enableHiddenProps

HiddenInit == InitIn({{}})
HiddenSpec == HiddenInit /\ [][HiddenNext]_vars

(***************************************************************************)
(* Definitions the properties are stated with                              *)
(***************************************************************************)

\* the compile state of a base rule
Uncompiled(baseRule) == ~HasKey(initializedComponents, baseRule)
StaticOnly(baseRule) == Get(initializedComponents, baseRule) = StrV(TypeStatic)
StaticAndDynamic(baseRule) == Get(initializedComponents, baseRule) = StrV(TypeDynamic)

\* the function values inside a value, in for-in order
RECURSIVE ProducerSeq(_)
RECURSIVE ProducerSeqFrom(_, _)
ProducerSeqFrom(entries, i) ==
    IF i > Len(entries) THEN << >>
    ELSE ProducerSeq(entries[i][2]) \o ProducerSeqFrom(entries, i + 1)
ProducerSeq(v) ==
    IF v.t = "fn" THEN << v >>
    ELSE IF v.t = "obj" THEN ProducerSeqFrom(v.entries, 1)
    ELSE << >>

Producers(v) == {ProducerSeq(v)[i] : i \in 1..Len(ProducerSeq(v))}

\* the static output: text and number of writes of every static element
StaticOutput ==
    [i \in {j \in 1..Len(sheets) : sheets[j].kind = "static"} |->
        << sheets[i].innerHTML, sheets[i].writes >>]

\* the definition the last initStyle() call got from its provider
MakeResultOf(call, instances) ==
    makeStyle(instances[call.m].class, instances[call.m].variant, WhenHelper, call.env)
LastMakeResult == MakeResultOf(last, managers)

\* the style element registered as the dynamic output of a rule line
DynamicSheetOf(ruleLine) == Get(knownStyles, ruleLine).dynamic

(***************************************************************************)
(* C1: static output is created and written only by the first initStyle()  *)
(* call made for a base rule: every step that adds a static element or     *)
(* changes the text or the write count of one is an initStyle() step on a  *)
(* base rule that had no initStyle() call before.                          *)
(***************************************************************************)
C1_StaticOutputOnlyInFirstInit ==
    [][StaticOutput' # StaticOutput =>
          /\ last'.op = "initStyle"
          /\ InitCalls(managers[last'.m].baseRule) = 0]_vars

\* a second initStyle() call ran on a base rule that has static output
C1_Witness ==
    /\ last.op = "initStyle"
    /\ ~last.first
    /\ InitCalls(managers[last.m].baseRule) >= 2
    /\ \E i \in 1..Len(sheets) :
          sheets[i].kind = "static" /\ sheets[i].made.rule = managers[last.m].baseRule

(***************************************************************************)
(* C2: an initStyle() call that is a cache hit on a base rule compiled     *)
(* with dynamic entries leaves the manager holding every value producer of *)
(* the definition this call produced.                                      *)
(***************************************************************************)
C2_LaterInitRefreshesDynamicRules ==
    (/\ last.op = "initStyle"
     /\ ~last.first
     /\ last.err = NoError
     /\ StaticAndDynamic(managers[last.m].baseRule))
    => Producers(LastMakeResult) \subseteq Producers(managers[last.m].dynamicRules)

(***************************************************************************)
(* C3: initStyle() invokes no value producer; an updateDynamicStyles(ref)  *)
(* call that completes invokes every producer of the manager's dynamic     *)
(* rule set exactly once, in order, with ref; and with the producer        *)
(* () => numUpdates++ under the property size of the base rule, the k-th   *)
(* completed update writes size:k-1 to the dynamic element of the rule.    *)
(***************************************************************************)
C3_ProducersRunOnEveryUpdate ==
    /\ last.op = "initStyle" => invoked = << >>
    /\ (last.op = "updateDynamicStyles" /\ last.err = NoError) =>
          LET mgr == managers[last.m]
              expected == ProducerSeq(mgr.dynamicRules)
              size == Get(Entries(Get(Entries(mgr.dynamicRules), mgr.baseRule)), S_size)
          IN  /\ invoked = [i \in 1..Len(expected) |-> << expected[i], Component >>]
              /\ (size.t = "fn" /\ size.kind = "counter") =>
                    /\ mgr.evals >= 1
                    /\ Contains(sheets[DynamicSheetOf(mgr.baseRule)].innerHTML,
                                S_size \o << ":" >> \o NatToString(mgr.evals - 1) \o << ";" >>)

\* a second update of a manager whose size is a counter has completed
C3_Witness ==
    /\ last.op = "updateDynamicStyles"
    /\ last.err = NoError
    /\ managers[last.m].evals = 2
    /\ Len(invoked) > 0
    /\ invoked[1][1].kind = "counter"

(***************************************************************************)
(* C4: updateDynamicStyles() writes to a dynamic element only when the     *)
(* text it rendered differs from the text the element holds: a step that   *)
(* leaves the text of an element as it was does not write to it.           *)
(***************************************************************************)
C4_NoRedundantWrite ==
    [][\A i \in 1..Len(sheets) :
          sheets'[i].innerHTML = sheets[i].innerHTML => sheets'[i].writes = sheets[i].writes]_vars

(***************************************************************************)
(* C5: updateDynamicStyles() without a component instance raises the       *)
(* missing-instance error, invokes no producer and writes nothing when the *)
(* manager's dynamic rule set holds a value producer, and raises nothing   *)
(* when it holds none; static rule sets are rendered without an instance   *)
(* and without error.                                                      *)
(***************************************************************************)
C5_MissingInstanceIsFatal ==
    [][/\ (last'.op = "updateDynamicStyles" /\ last'.noRef) =>
             IF Producers(managers[last'.m].dynamicRules) # {}
             THEN /\ last'.err = MissingInstanceError
                  /\ invoked' = << >>
                  /\ sheets' = sheets
             ELSE last'.err = NoError
       /\ last'.op = "initStyle" => last'.err = NoError]_vars

\* an update without an instance on a manager with producers has failed
C5_Witness ==
    /\ last.op = "updateDynamicStyles"
    /\ last.noRef
    /\ last.err = MissingInstanceError
    /\ Producers(managers[last.m].dynamicRules) # {}

\* the managers that ran a first compile, and what each compiled
Compilers == {m \in Managers : managers[m].compiled # 0}
CompiledDefinition(m) ==
    makeStyle(managers[m].class, managers[m].variant, WhenHelper, managers[m].compiled)

\* the keyframes blocks of a definition, as << name, keyTimes >> pairs
RECURSIVE KeyframeBlocks(_)
RECURSIVE KeyframeBlocksFrom(_, _)
KeyframeBlocksFrom(entries, i) ==
    IF i > Len(entries) THEN << >>
    ELSE LET prop == entries[i][1]
             value == entries[i][2]
         IN  (IF TypeOf(value) # "object" THEN << >>
              ELSE IF isKeyframesProp(prop, value) THEN << << prop, value >> >>
              ELSE KeyframeBlocks(value))
             \o KeyframeBlocksFrom(entries, i + 1)
KeyframeBlocks(def) == KeyframeBlocksFrom(Entries(def), 1)

\* the static elements whose text mentions name
StaticTextOf(name) ==
    {i \in 1..Len(sheets) : sheets[i].kind = "static" /\ Contains(sheets[i].innerHTML, name)}

\* every time-bucket of keyTimes, with every property, is in the rule set ruleSet
AllBucketsIn(keyTimes, ruleSet) ==
    \A b \in 1..Len(Entries(keyTimes)) :
        \E k \in 1..Len(Entries(ruleSet)) :
            \A q \in 1..Len(Entries(Entries(keyTimes)[b][2])) :
                LET pair == Entries(Entries(keyTimes)[b][2])[q]
                IN  Get(Entries(Entries(ruleSet)[k][2]), toCSSProp(pair[1])) = pair[2]

\* the text of the element holds a line for every property of every bucket
AllBucketsRendered(keyTimes, text) ==
    \A b \in 1..Len(Entries(keyTimes)) :
        \A q \in 1..Len(Entries(Entries(keyTimes)[b][2])) :
            Contains(text, << "\n" >> \o toCSSProp(Entries(Entries(keyTimes)[b][2])[q][1]) \o << ":" >>)

\* manager m, which first-compiled the block << name, keyTimes >>, treats
\* it as a whole: static or dynamic
BlockIsWhole(m, name, keyTimes) ==
    LET dynamicRules == Entries(managers[m].dynamicRules)
    IN  IF Producers(keyTimes) = {}
        THEN /\ ~HasKey(dynamicRules, name)
             /\ HasKey(knownStyles, name)
             /\ Get(knownStyles, name).static # NoSheet
             /\ sheets[Get(knownStyles, name).static].writes = 1
             /\ AllBucketsRendered(keyTimes, sheets[Get(knownStyles, name).static].innerHTML)
        ELSE /\ HasKey(dynamicRules, name)
             /\ AllBucketsIn(keyTimes, Get(dynamicRules, name))
             /\ StaticTextOf(name) = {}
             /\ Get(knownStyles, name).static = NoSheet
             /\ (last.op = "updateDynamicStyles" /\ last.m = m /\ last.err = NoError) =>
                   LET el == sheets[DynamicSheetOf(name)]
                   IN  /\ el.wrote = [op |-> "updateDynamicStyles", rule |-> managers[m].baseRule,
                                      nth |-> managers[m].updates]
                       /\ AllBucketsRendered(keyTimes, el.innerHTML)

\* the animation names a definition uses for more than one block
Repeated(blocks) ==
    {blocks[i][1] : i \in {j \in 1..Len(blocks) :
                              \E k \in 1..Len(blocks) : k # j /\ blocks[k][1] = blocks[j][1]}}

C7_StaticAndDynamicDisjoint ==
    \A m \in Compilers :
        \A i \in 1..Len(managers[m].staticRules) :
            LET selector == managers[m].staticRules[i][1]
                static == Entries(managers[m].staticRules[i][2])
                dynamic == Entries(Get(Entries(managers[m].dynamicRules), selector))
            IN  ~isKeyframesProp(selector, EmptyObj) =>
                    \A q \in 1..Len(static) : ~HasKey(dynamic, static[q][1])

(***************************************************************************)
(* C8: the compile state of a base rule is set once, by the first          *)
(* initStyle() call for the rule, to "dynamic" if the definition of that   *)
(* call holds a function and to "static" otherwise; a first initStyle()    *)
(* sets it, and no later call of any instance changes it.                  *)
(***************************************************************************)
C8_CompileStateSetOnce ==
    [][\A c \in Classes :
          LET R == BaseRuleOf(c)
          IN  /\ ~Uncompiled(R) =>
                    Get(initializedComponents', R) = Get(initializedComponents, R)
              /\ (Uncompiled(R) /\ HasKey(initializedComponents', R)) =>
                    /\ last'.op = "initStyle"
                    /\ managers[last'.m].baseRule = R
                    /\ InitCalls(R) = 0
                    /\ Get(initializedComponents', R) =
                          (IF Producers(MakeResultOf(last', managers')) # {} THEN StrV(TypeDynamic)
                           ELSE StrV(TypeStatic))
              /\ (Uncompiled(R) /\ last'.op = "initStyle" /\ managers[last'.m].baseRule = R) =>
                    HasKey(initializedComponents', R)]_vars

\* a later instance with another definition was initialised after the
\* first compile of a definition with a function
C8_Witness ==
    /\ last.op = "initStyle"
    /\ ~last.first
    /\ StaticAndDynamic(managers[last.m].baseRule)
    /\ Producers(LastMakeResult) = {}
    /\ \E m \in Compilers : Producers(CompiledDefinition(m)) # {}

(***************************************************************************)
(* C9: updateDynamicStyles() on a manager whose base rule is not compiled  *)
(* or is compiled as static only raises nothing, invokes no producer,      *)
(* writes to no element and leaves the registry as it was.                 *)
(***************************************************************************)
C9_UpdateIsNoOpWithoutDynamic ==
    [][(/\ last'.op = "updateDynamicStyles"
        /\ \/ Uncompiled(managers[last'.m].baseRule)
           \/ StaticOnly(managers[last'.m].baseRule))
       => /\ last'.err = NoError
          /\ invoked' = << >>
          /\ UNCHANGED << sheets, knownStyles, initializedComponents, envs >>]_vars

\* an update ran on a manager of a base rule compiled as static only
C9_Witness ==
    /\ last.op = "updateDynamicStyles"
    /\ StaticOnly(managers[last.m].baseRule)
    /\ managers[last.m].inits >= 1
    /\ managers[last.m].updates >= 1

(***************************************************************************)
(* C10: the key when(s) is the reserved prefix followed by s and is a      *)
(* when-key for the walker, so the first compile of the definition         *)
(* { [when("Square")]: { [when(":active")]: { color } } } under the base   *)
(* rule .Comp reports color under the selector .Comp.Square:active.        *)
(***************************************************************************)
C10_WhenComposition ==
    (/\ last.op = "initStyle"
     /\ last.first
     /\ managers[last.m].class = "Comp")
    => /\ \A s \in WhenParams :
              /\ when(s) = whenKey \o s
              /\ isWhenProp(when(s), EmptyObj)
       /\ \E i \in 1..Len(reported) :
              /\ reported[i].line = << ".", "C", "o", "m", "p", ".", "S", "q", "u", "a", "r", "e", ":", "a", "c", "t", "i", "v", "e" >>
              /\ reported[i].prop = S_color

(***************************************************************************)
(* The levels of a definition, as the selector rules describe them          *)
(***************************************************************************)

IsLetter(code) == (code >= 65 /\ code <= 90) \/ (code >= 97 /\ code <= 122)
HasPrefix(str, lead) == Len(str) >= Len(lead) /\ SubSeq(str, 1, Len(lead)) = lead

\* the selector of the level an object-valued entry with key k opens under
\* selector S, and the kind of step that leads to it
StepKind(k) ==
    IF HasPrefix(k, whenKey) THEN "when"
    ELSE IF HasPrefix(k, << "@" >>) THEN "keyframes"
    ELSE IF HasPrefix(k, << "=" >>) THEN "absolute"
    ELSE "child"
QualifiedSelector(S, s) == IF IsLetter(FirstCode(s)) THEN S \o << "." >> \o s ELSE S \o s
ChildSelector(S, k) ==
    IF FirstCode(k) >= 65 /\ FirstCode(k) <= 90 THEN S \o << " ", "." >> \o k
    ELSE S \o << " " >> \o k
StepSelector(S, k) ==
    CASE StepKind(k) = "when" -> QualifiedSelector(S, SubSeq(k, Len(whenKey) + 1, Len(k)))
      [] StepKind(k) = "absolute" -> SubSeq(k, 2, Len(k))
      [] OTHER -> ChildSelector(S, k)

\* the levels of the definition def under selector S, in the order of the
\* definition: the selector of each level, its entries, the kind of step that
\* opened it, the selector it was met under, and whether it lies inside an
\* absolute entry
RECURSIVE LevelsOf(_, _, _, _, _)
RECURSIVE LevelsFrom(_, _, _, _)
LevelsFrom(S, entries, i, inAbs) ==
    IF i > Len(entries) THEN << >>
    ELSE (IF entries[i][2].t = "obj" /\ StepKind(entries[i][1]) # "keyframes"
          THEN LevelsOf(StepSelector(S, entries[i][1]), entries[i][2],
                        StepKind(entries[i][1]), S,
                        inAbs \/ StepKind(entries[i][1]) = "absolute")
          ELSE << >>)
         \o LevelsFrom(S, entries, i + 1, inAbs)
LevelsOf(S, def, kind, parent, inAbs) ==
    << [line |-> S, entries |-> def.entries, kind |-> kind, parent |-> parent,
        inAbs |-> inAbs] >>
    \o LevelsFrom(S, def.entries, 1, inAbs)
Levels(S, def) == IF def.t = "obj" THEN LevelsOf(S, def, "base", << >>, FALSE) ELSE << >>

\* the entries of a level that carry a value of their own: the value is not
\* an object and the key is not a state qualifier
PlainLeaves(entries) ==
    SelectSeq(entries, LAMBDA e : e[2].t # "obj" /\ ~HasPrefix(e[1], whenKey))

\* the handler calls of the last walk made with selector S, in order
ReportedUnder(S) ==
    SelectSeq(reported, LAMBDA r : r.line = S /\ r.on \in {"firstStatic", "firstDynamic"})

\* the plain leaves of all the levels of lv that have selector S, in order
RECURSIVE LeavesUnder(_, _, _)
LeavesUnder(S, lv, i) ==
    IF i > Len(lv) THEN << >>
    ELSE (IF lv[i].line = S THEN PlainLeaves(lv[i].entries) ELSE << >>)
         \o LeavesUnder(S, lv, i + 1)

\* the handler calls made with selector S are the plain leaves of the levels
\* with that selector, one call for each, in the same order
LevelReported(S, lv) ==
    /\ Len(ReportedUnder(S)) = Len(LeavesUnder(S, lv, 1))
    /\ \A j \in 1..Len(ReportedUnder(S)) :
           /\ ReportedUnder(S)[j].prop = toCSSProp(LeavesUnder(S, lv, 1)[j][1])
           /\ ReportedUnder(S)[j].value = LeavesUnder(S, lv, 1)[j][2]

\* the last operation was a first initStyle() that ran to its end
FirstWalkDone == last.op = "initStyle" /\ last.first /\ last.err = NoError

(***************************************************************************)
(* C11: the entries nested in a key made of the reserved prefix and a       *)
(* suffix s, met under selector S, are reported under S.s when s starts     *)
(* with a letter and under Ss otherwise; no handler is called for the       *)
(* state-qualifier key itself.                                              *)
(***************************************************************************)
C11_StateQualifierSelector ==
    FirstWalkDone =>
        /\ \A i \in 1..Len(Levels(managers[last.m].baseRule, LastMakeResult)) :
               Levels(managers[last.m].baseRule, LastMakeResult)[i].kind = "when" =>
                   LevelReported(Levels(managers[last.m].baseRule, LastMakeResult)[i].line,
                                 Levels(managers[last.m].baseRule, LastMakeResult))
        /\ \A j \in 1..Len(reported) : ~HasPrefix(reported[j].prop, whenKey)

\* a first walk met a qualifier that starts with a letter and one that does
\* not, and a qualifier nested in a qualifier
C11_Witness ==
    /\ FirstWalkDone
    /\ \E j \in 1..Len(reported) : reported[j].line = << ".", "Q", "u", "a", "l", "i", "f", "i", "e", "d", ".", "S", "q", "u", "a", "r", "e" >>
    /\ \E j \in 1..Len(reported) : reported[j].line = << ".", "Q", "u", "a", "l", "i", "f", "i", "e", "d", ":", "a", "c", "t", "i", "v", "e" >>
    /\ \E j \in 1..Len(reported) : reported[j].line = << ".", "Q", "u", "a", "l", "i", "f", "i", "e", "d", ".", "S", "q", "u", "a", "r", "e", ":", "a", "c", "t", "i", "v", "e" >>
    /\ \E j \in 1..Len(reported) : reported[j].line = << ".", "Q", "u", "a", "l", "i", "f", "i", "e", "d", ".", "s", "e", "l", "e", "c", "t", "e", "d", " ", "d", "i", "v" >>

(***************************************************************************)
(* C12: the entries nested in an object-valued key k that does not start    *)
(* with the reserved prefix, '@' or '=', met under selector S, are reported *)
(* under "S .k" when k starts with an uppercase letter and under "S k"      *)
(* otherwise, at every nesting depth.                                       *)
(***************************************************************************)
C12_ChildSelector ==
    FirstWalkDone =>
        \A i \in 1..Len(Levels(managers[last.m].baseRule, LastMakeResult)) :
            Levels(managers[last.m].baseRule, LastMakeResult)[i].kind = "child" =>
                LevelReported(Levels(managers[last.m].baseRule, LastMakeResult)[i].line,
                              Levels(managers[last.m].baseRule, LastMakeResult))

\* a first walk met a component name, an element inside an element and a
\* key that starts with '>'
C12_Witness ==
    /\ FirstWalkDone
    /\ \E j \in 1..Len(reported) : reported[j].line = << ".", "P", "a", "r", "e", "n", "t", " ", ".", "C", "h", "i", "l", "d", "C", "o", "m", "p", "o", "n", "e", "n", "t" >>
    /\ \E j \in 1..Len(reported) : reported[j].line = << ".", "P", "a", "r", "e", "n", "t", " ", "d", "i", "v", " ", "h", "1" >>
    /\ \E j \in 1..Len(reported) : reported[j].line = << ".", "P", "a", "r", "e", "n", "t", " ", ">", "b", "u", "t", "t", "o", "n" >>

(***************************************************************************)
(* C13: the entries nested in an object-valued key "=X" are reported under  *)
(* selector X, whatever the selector the key was met under, and the state   *)
(* qualifiers and children nested inside extend X as they extend a base     *)
(* rule.                                                                    *)
(***************************************************************************)
C13_AbsoluteSelector ==
    FirstWalkDone =>
        \A i \in 1..Len(Levels(managers[last.m].baseRule, LastMakeResult)) :
            Levels(managers[last.m].baseRule, LastMakeResult)[i].inAbs =>
                /\ LevelReported(Levels(managers[last.m].baseRule, LastMakeResult)[i].line,
                                 Levels(managers[last.m].baseRule, LastMakeResult))
                /\ ~Contains(Levels(managers[last.m].baseRule, LastMakeResult)[i].line,
                             Tail(managers[last.m].baseRule))

\* a first walk met an absolute key nested in a child, with a property, a
\* state qualifier and a child inside it
C13_Witness ==
    /\ FirstWalkDone
    /\ managers[last.m].class = "Absolute"
    /\ \E j \in 1..Len(reported) : reported[j].line = << ".", "O", "u", "t", "e", "r", "-", "C", "o", "n", "t", "a", "i", "n", "e", "r" >>
    /\ \E j \in 1..Len(reported) : reported[j].line = << ".", "O", "u", "t", "e", "r", "-", "C", "o", "n", "t", "a", "i", "n", "e", "r", ".", "O", "p", "e", "n" >>
    /\ \E j \in 1..Len(reported) : reported[j].line = << ".", "O", "u", "t", "e", "r", "-", "C", "o", "n", "t", "a", "i", "n", "e", "r", " ", ">", "h", "1" >>

(***************************************************************************)
(* Dash-case names                                                          *)
(***************************************************************************)

UpperCase == << "A", "B", "C", "D", "E", "F", "G", "H", "I", "J", "K", "L", "M", "N", "O", "P", "Q", "R", "S", "T", "U", "V", "W", "X", "Y", "Z" >>
LowerCase == << "a", "b", "c", "d", "e", "f", "g", "h", "i", "j", "k", "l", "m", "n", "o", "p", "q", "r", "s", "t", "u", "v", "w", "x", "y", "z" >>
IsUpper(c) == \E i \in 1..Len(UpperCase) : UpperCase[i] = c
LowerOf(c) == LowerCase[CHOOSE i \in 1..Len(UpperCase) : UpperCase[i] = c]

\* name with each uppercase letter replaced by '-' and its lowercase form
RECURSIVE DashCase(_)
DashCase(name) ==
    IF Len(name) = 0 THEN << >>
    ELSE DashCase(SubSeq(name, 1, Len(name) - 1))
         \o (IF IsUpper(name[Len(name)]) THEN << "-", LowerOf(name[Len(name)]) >>
             ELSE << name[Len(name)] >>)

\* the << key, value >> pairs of a definition whose value is not an object,
\* at every depth, those of the keyframe time-buckets included
RECURSIVE AllLeaves(_)
AllLeaves(def) ==
    UNION {IF def.entries[i][2].t = "obj" THEN AllLeaves(def.entries[i][2])
           ELSE {def.entries[i]} : i \in 1..Len(def.entries)}

\* the time-keys of the keyframes blocks of a definition
TimeKeys(def) ==
    UNION {{Entries(KeyframeBlocks(def)[b][2])[k][1] :
                k \in 1..Len(Entries(KeyframeBlocks(def)[b][2]))} :
           b \in 1..Len(KeyframeBlocks(def))}

PropertyHandlers == {"firstStatic", "firstDynamic", "keyTimeStatic", "keyTimeDynamic"}

(***************************************************************************)
(* C14: every property name handed to a static or dynamic handler, those of *)
(* the keyframe time-buckets included, is the name written in the           *)
(* definition with each uppercase letter replaced by '-' and its lowercase  *)
(* form; a name without uppercase letters is handed over unchanged, so the  *)
(* conversion of a converted name changes nothing; time-keys and animation  *)
(* names are handed over as written.                                        *)
(***************************************************************************)
C14_DashCaseNames ==
    FirstWalkDone =>
        /\ \A j \in 1..Len(reported) :
               reported[j].on \in PropertyHandlers =>
                   /\ \E p \in AllLeaves(LastMakeResult) :
                          /\ reported[j].prop = DashCase(p[1])
                          /\ reported[j].value = p[2]
                   /\ toCSSProp(reported[j].prop) = reported[j].prop
        /\ \A p \in AllLeaves(LastMakeResult) :
               ~HasPrefix(p[1], whenKey) =>
                   \E j \in 1..Len(reported) :
                       /\ reported[j].on \in PropertyHandlers
                       /\ reported[j].prop = DashCase(p[1])
                       /\ reported[j].value = p[2]
        /\ \A j \in 1..Len(reported) :
               reported[j].on = "firstKeyframes" =>
                   \E b \in 1..Len(KeyframeBlocks(LastMakeResult)) :
                       reported[j].prop = KeyframeBlocks(LastMakeResult)[b][1]
        /\ \A j \in 1..Len(reported) :
               reported[j].on \in {"keyTimeStatic", "keyTimeDynamic"} =>
                   \E k \in TimeKeys(LastMakeResult) : HasPrefix(reported[j].line, k)

\* a first walk handed over a camel-case name of a time-bucket, an
\* animation name and a time-key that hold uppercase letters
C14_Witness ==
    /\ FirstWalkDone
    /\ \E j \in 1..Len(reported) :
           reported[j].on = "keyTimeStatic" /\ reported[j].prop = << "m", "a", "r", "g", "i", "n", "-", "l", "e", "f", "t" >>
    /\ \E j \in 1..Len(reported) :
           reported[j].on = "firstKeyframes" /\ reported[j].prop = << "@", "k", "e", "y", "f", "r", "a", "m", "e", "s", " ", "T", "i", "m", "e", "d", "-", "F", "a", "d", "e" >>
    /\ \E j \in 1..Len(reported) : reported[j].line = << "T", "o" >>

(***************************************************************************)
(* C15: a time-key made only of digits is reported with one '%' appended;   *)
(* the keys from and to and a key that already ends in '%' are reported as  *)
(* they are written.                                                        *)
(***************************************************************************)
OnlyDigits(k) == Len(k) > 0 /\ \A i \in 1..Len(k) : IsDigit(k[i])
TimeKeyAsStated(k) == IF OnlyDigits(k) THEN k \o << "%" >> ELSE k

C15_TimeKeyPercent ==
    FirstWalkDone =>
        /\ \A j \in 1..Len(reported) :
               reported[j].on \in {"keyTimeStatic", "keyTimeDynamic"} =>
                   \E k \in TimeKeys(LastMakeResult) : reported[j].line = TimeKeyAsStated(k)
        /\ \A b \in 1..Len(KeyframeBlocks(LastMakeResult)) :
               \A k \in 1..Len(Entries(KeyframeBlocks(LastMakeResult)[b][2])) :
                   Len(Entries(Entries(KeyframeBlocks(LastMakeResult)[b][2])[k][2])) > 0 =>
                       \E j \in 1..Len(reported) :
                           /\ reported[j].on \in {"keyTimeStatic", "keyTimeDynamic"}
                           /\ reported[j].line =
                                  TimeKeyAsStated(Entries(KeyframeBlocks(LastMakeResult)[b][2])[k][1])

(***************************************************************************)
(* C16: the static output of a first compile is emitted in first-met order: *)
(* the static elements follow one another in the order in which the walk    *)
(* first met their selectors or animation names, and inside one element     *)
(* the declarations follow the order in which the properties were first     *)
(* met.                                                                     *)
(***************************************************************************)
\* the position of the first handler call of the last walk that gives static
\* output to the selector or animation name sel, 0 when there is none
FirstMet(sel) ==
    IF \E j \in 1..Len(reported) :
           \/ reported[j].on = "firstStatic" /\ reported[j].line = sel
           \/ reported[j].on = "firstKeyframes" /\ reported[j].prop = sel
    THEN CHOOSE j \in 1..Len(reported) :
           /\ \/ reported[j].on = "firstStatic" /\ reported[j].line = sel
              \/ reported[j].on = "firstKeyframes" /\ reported[j].prop = sel
           /\ \A i \in 1..(j - 1) :
                  ~ \/ reported[i].on = "firstStatic" /\ reported[i].line = sel
                    \/ reported[i].on = "firstKeyframes" /\ reported[i].prop = sel
    ELSE 0

\* the first position of needle in hay, 0 when it does not occur
IndexOf(hay, needle) ==
    IF Contains(hay, needle)
    THEN CHOOSE i \in 1..Len(hay) :
           /\ i + Len(needle) - 1 <= Len(hay)
           /\ SubSeq(hay, i, i + Len(needle) - 1) = needle
           /\ \A h \in 1..(i - 1) : SubSeq(hay, h, h + Len(needle) - 1) # needle
    ELSE 0

\* the selectors registered with a static element, and the element of each
StaticSelectors == {knownStyles[k][1] : k \in {h \in 1..Len(knownStyles) : knownStyles[h][2].static # NoSheet}}
StaticSheetOf(sel) == Get(knownStyles, sel).static

C16_FirstSeenOrder ==
    FirstWalkDone =>
        /\ \A s1, s2 \in StaticSelectors :
               (FirstMet(s1) > 0 /\ FirstMet(s1) < FirstMet(s2)) =>
                   StaticSheetOf(s1) < StaticSheetOf(s2)
        /\ \A i, j \in 1..Len(reported) :
               (/\ i < j
                /\ reported[i].on = "firstStatic" /\ reported[j].on = "firstStatic"
                /\ reported[i].line = reported[j].line
                /\ reported[i].prop # reported[j].prop
                /\ \A h \in 1..(i - 1) :
                       ~(reported[h].on = "firstStatic" /\ reported[h].line = reported[j].line
                         /\ reported[h].prop = reported[j].prop)) =>
                   LET text == sheets[StaticSheetOf(reported[i].line)].innerHTML
                   IN  /\ IndexOf(text, << "\n" >> \o reported[i].prop \o << ":" >>) > 0
                       /\ IndexOf(text, << "\n" >> \o reported[i].prop \o << ":" >>)
                              < IndexOf(text, << "\n" >> \o reported[j].prop \o << ":" >>)

(***************************************************************************)
(* C17: when a value producer throws during updateDynamicStyles(ref), the   *)
(* call ends with that error, and the dynamic element of the rule that      *)
(* holds the producer keeps the text it had before the call.                *)
(***************************************************************************)
\* the producers a step invoked that threw: each producer is invoked once in
\* a call, on the closure variables it found
ThrownIn(before, calls) ==
    {j \in 1..Len(calls) : Call(calls[j][1], calls[j][2], before).err # NoError}

\* the rule lines of a dynamic rule set that hold the producer fn
RuleLinesOf(fn, dynamicRules) ==
    {Entries(dynamicRules)[k][1] :
        k \in {h \in 1..Len(Entries(dynamicRules)) : fn \in Producers(Entries(dynamicRules)[h][2])}}

C17_ProducerErrorPropagates ==
    [][(last'.op = "updateDynamicStyles" /\ ThrownIn(envs, invoked') # {}) =>
          /\ last'.err = ProducerError
          /\ \A j \in ThrownIn(envs, invoked') :
                 \A r \in RuleLinesOf(invoked'[j][1], managers[last'.m].dynamicRules) :
                     sheets'[DynamicSheetOf(r)] = sheets[DynamicSheetOf(r)]]_vars

\* an update ended by the producer of the second rule, after the element of
\* the first rule was written again
C17_Witness ==
    /\ last.op = "updateDynamicStyles"
    /\ last.err = ProducerError
    /\ managers[last.m].thrown >= 1
    /\ sheets[DynamicSheetOf(<< ".", "B", "r", "i", "t", "t", "l", "e" >>)].writes = 2
    /\ sheets[DynamicSheetOf(<< ".", "B", "r", "i", "t", "t", "l", "e", " ", "d", "i", "v" >>)].writes = 1
    /\ Contains(sheets[DynamicSheetOf(<< ".", "B", "r", "i", "t", "t", "l", "e", " ", "d", "i", "v" >>)].innerHTML, << "s", "i", "z", "e", ":", "0", ";" >>)

(***************************************************************************)
(* C18: every initStyle() call invokes the style-definition provider        *)
(* exactly once, whatever the compile state of the base rule, and before    *)
(* any lookup of the registry.                                              *)
(***************************************************************************)
ProviderCalls(trace) == {i \in 1..Len(trace) : trace[i] = "makeStyle"}
RegistryLookups(trace) == {i \in 1..Len(trace) : trace[i] = "styleInitializedBefore"}

C18_ProviderCalledOnce ==
    last.op = "initStyle" =>
        /\ Cardinality(ProviderCalls(last.trace)) = 1
        /\ RegistryLookups(last.trace) # {}
        /\ \A i \in ProviderCalls(last.trace) : \A j \in RegistryLookups(last.trace) : i < j

\* a manager of each compile state had its initStyle() call: a first compile
\* and a cache hit on a rule with dynamic entries
C18_Witness ==
    /\ last.op = "initStyle"
    /\ ~last.first
    /\ StaticAndDynamic(managers[last.m].baseRule)
    /\ Cardinality(RegistryLookups(last.trace)) = 2
    /\ \E m \in Managers : m # last.m /\ managers[m].compiled # 0

(***************************************************************************)
(* C19: on every component built on the lifecycle binding and for every     *)
(* sequence of its lifecycle events, initStyle() of the style manager has   *)
(* returned before the first updateDynamicStyles() call on it; the mount    *)
(* wrapper calls initStyle(), the component's own componentDidMount and     *)
(* updateDynamicStyles(), in this order.                                    *)
(***************************************************************************)
C19_InitBeforeUpdate ==
    \A m \in Managers :
        /\ \A i \in 1..Len(managers[m].calls) :
               managers[m].calls[i] = "updateDynamicStyles" =>
                   \E j \in 1..(i - 1) : managers[m].calls[j] = "initStyle returned"
        /\ (/\ last.op = "componentDidMount" /\ last.m = m
            /\ managers[m].hooks.mount /\ last.err = NoError) =>
               \E i \in 1..Len(last.trace) :
                   \E j \in (i + 1)..Len(last.trace) :
                       \E k \in (j + 1)..Len(last.trace) :
                           /\ last.trace[i] = "initStyle returned"
                           /\ last.trace[j] = "origMount"
                           /\ last.trace[k] = "updateDynamicStyles"

(***************************************************************************)
(* C20: every entry whose value is not an object causes exactly one handler *)
(* call, with the selector of its level: the dynamic handler for a          *)
(* function, the static handler for any other value, whatever the key is,   *)
(* a key with the reserved prefix included; an object-valued entry causes   *)
(* no static or dynamic handler call at its own level.                      *)
(***************************************************************************)
\* the entries of all the levels of lv with selector S whose value is not an
\* object, in order
RECURSIVE EveryLeafUnder(_, _, _)
EveryLeafUnder(S, lv, i) ==
    IF i > Len(lv) THEN << >>
    ELSE (IF lv[i].line = S THEN SelectSeq(lv[i].entries, LAMBDA e : e[2].t # "obj")
          ELSE << >>)
         \o EveryLeafUnder(S, lv, i + 1)

HandlerFor(value) == IF value.t = "fn" THEN "firstDynamic" ELSE "firstStatic"

C20_OneCallForEveryLeaf ==
    FirstWalkDone =>
        \A i \in 1..Len(Levels(managers[last.m].baseRule, LastMakeResult)) :
            LET S == Levels(managers[last.m].baseRule, LastMakeResult)[i].line
                leaves == EveryLeafUnder(S, Levels(managers[last.m].baseRule, LastMakeResult), 1)
            IN  /\ Len(ReportedUnder(S)) = Len(leaves)
                /\ \A j \in 1..Len(leaves) :
                       /\ ReportedUnder(S)[j].prop = toCSSProp(leaves[j][1])
                       /\ ReportedUnder(S)[j].value = leaves[j][2]
                       /\ ReportedUnder(S)[j].on = HandlerFor(leaves[j][2])

(***************************************************************************)
(* C21: initStyle() never writes to a dynamic element: the dynamic elements *)
(* it creates are empty and the older ones keep their text; an              *)
(* updateDynamicStyles() call creates no element, writes to no static       *)
(* element and leaves the compile state of every base rule alone.           *)
(***************************************************************************)
C21_FrameOfInitAndUpdate ==
    [][/\ last'.op = "initStyle" =>
              \A i \in 1..Len(sheets') :
                  sheets'[i].kind = "dynamic" =>
                      IF i <= Len(sheets) THEN sheets'[i] = sheets[i]
                      ELSE sheets'[i].innerHTML = << >> /\ sheets'[i].writes = 0
       /\ last'.op = "updateDynamicStyles" =>
              /\ Len(sheets') = Len(sheets)
              /\ \A i \in 1..Len(sheets) : sheets[i].kind = "static" => sheets'[i] = sheets[i]
              /\ initializedComponents' = initializedComponents]_vars

\* an update wrote a dynamic element that a first compile had created next
\* to a static one
C21_Witness ==
    /\ last.op = "updateDynamicStyles"
    /\ last.err = NoError
    /\ \E i, j \in 1..Len(sheets) :
           /\ sheets[i].kind = "dynamic" /\ sheets[i].writes >= 1
           /\ sheets[j].kind = "static" /\ sheets[j].writes = 1
           /\ sheets[i].made = sheets[j].made

(***************************************************************************)
(* C22: elements are created only by a first compile, which creates at most *)
(* one static and one dynamic element for a selector or animation name, so  *)
(* every element it creates is the one the registry holds for its key; an   *)
(* initStyle() call that is a cache hit creates no element and writes to    *)
(* none, and leaves the registry alone when the state is static-only.       *)
(***************************************************************************)
\* the elements a registry holds
HeldBy(known) ==
    {known[k][2].static : k \in 1..Len(known)} \cup {known[k][2].dynamic : k \in 1..Len(known)}

C22_OneTargetPerSelector ==
    [][/\ Len(sheets') > Len(sheets) => (last'.op = "initStyle" /\ last'.first)
       /\ (last'.op = "initStyle" /\ last'.first) =>
              \A i \in (Len(sheets) + 1)..Len(sheets') : i \in HeldBy(knownStyles')
       /\ (last'.op = "initStyle" /\ ~last'.first) =>
              /\ sheets' = sheets
              /\ StaticOnly(managers[last'.m].baseRule) =>
                     knownStyles' = knownStyles /\ initializedComponents' = initializedComponents
      ]_vars

(***************************************************************************)
(* C23: the registry is first-caller-wins and never evicts: no step removes *)
(* a key, and a static or dynamic reference that a record holds is never    *)
(* replaced or cleared.                                                     *)
(***************************************************************************)
C23_RegistryFirstCallerWins ==
    [][\A k \in 1..Len(knownStyles) :
           /\ HasKey(knownStyles', knownStyles[k][1])
           /\ knownStyles[k][2].static # NoSheet =>
                  Get(knownStyles', knownStyles[k][1]).static = knownStyles[k][2].static
           /\ knownStyles[k][2].dynamic # NoSheet =>
                  Get(knownStyles', knownStyles[k][1]).dynamic = knownStyles[k][2].dynamic
      ]_vars

(***************************************************************************)
(* C24: the walk of a finite definition ends, and the number of parseStyle  *)
(* calls it makes is at most the number of object-valued entries of the     *)
(* definition plus one.                                                     *)
(***************************************************************************)
\* the object-valued entries of a definition, at every depth
RECURSIVE ObjectEntries(_)
RECURSIVE ObjectEntriesFrom(_, _)
ObjectEntriesFrom(entries, i) ==
    IF i > Len(entries) THEN 0
    ELSE (IF entries[i][2].t = "obj" THEN 1 + ObjectEntries(entries[i][2]) ELSE 0)
         + ObjectEntriesFrom(entries, i + 1)
ObjectEntries(def) == ObjectEntriesFrom(def.entries, 1)

WalkCalls(trace) == Cardinality({i \in 1..Len(trace) : trace[i] = "parseStyle"})

C24_WalkCallsBounded ==
    FirstWalkDone =>
        /\ WalkCalls(last.trace) >= 1
        /\ WalkCalls(last.trace) <= ObjectEntries(LastMakeResult) + 1

(***************************************************************************)
(* C25: in the unnamed-component registry, every generateName call returns  *)
(* a name that no call returned before, getConstructor of a returned name   *)
(* is the constructor it was created for, and getName of a named            *)
(* constructor is a name created for that constructor.                      *)
(***************************************************************************)
C25_NamesAreUniqueAndFound ==
    /\ \A i, j \in 1..Len(unnamed.returned) :
           i # j => unnamed.returned[i].name # unnamed.returned[j].name
    /\ \A i \in 1..Len(unnamed.returned) :
           /\ getConstructor(unnamed, unnamed.returned[i].name) = unnamed.returned[i].constructor
           /\ \E j \in 1..Len(unnamed.returned) :
                  /\ unnamed.returned[j].constructor = unnamed.returned[i].constructor
                  /\ unnamed.returned[j].name = getName(unnamed, unnamed.returned[i].constructor)

(***************************************************************************)
(* C26: the hidden-prop flag of a component is enabled, disabled or         *)
(* permanently disabled; a render() that returned an array or a Fragment    *)
(* leaves it permanently disabled; and from a permanently disabled flag     *)
(* every step keeps it so, an enableHiddenProp() or disableHiddenProp()     *)
(* call raises HiddenPropDisabledError, and a render() does not set         *)
(* display to "none".                                                      *)
(***************************************************************************)
IsFlat(fullResult) ==
    isArray(fullResult) \/ (fullResult.t = "obj" /\ Get(Entries(fullResult), S_type) = Fragment)

FlagStates ==
    \A c \in 1..Len(components) :
        /\ components[c].hiddenPropEnabled \in {BoolV(TRUE), BoolV(FALSE), Null}
        /\ (components[c].last.op = "render" /\ IsFlat(components[c].last.result))
               => components[c].hiddenPropEnabled = Null

StaysDisabled ==
    \A c \in 1..Len(components) :
        components[c].hiddenPropEnabled = Null =>
            /\ components'[c].hiddenPropEnabled = Null
            /\ components'[c].calls # components[c].calls =>
                   /\ components'[c].last.op = "enableHiddenProp"
                          => components'[c].last.err = HiddenPropDisabledError("enable")
                   /\ components'[c].last.op = "disableHiddenProp"
                          => components'[c].last.err = HiddenPropDisabledError("disable")
                   /\ components'[c].last.display # StrV(S_none)

C26_PermanentlyDisabled == []FlagStates /\ [][StaysDisabled]_vars

\* a hidden component whose render returned an array while hidden props were
\* enabled everywhere, and whose enableHiddenProp() was refused afterwards
C26_Witness ==
    \E c \in 1..Len(components) :
        /\ components[c].hiddenPropEnabled = Null
        /\ components[c].warned = 1
        /\ Truthy(components[c].hidden)
        /\ hiddenPropEnabledGlobally
        /\ components[c].last.op = "enableHiddenProp"
        /\ components[c].last.err = HiddenPropDisabledError("enable")

(***************************************************************************)
(* C27: in the lifecycle binding, no updateDynamicStyles call issued by the *)
(* componentDidMount wrapper, the componentDidUpdate wrapper or             *)
(* forceUpdateStyles() of a mounted component raises the                    *)
(* missing-component-reference error, and each passes a reference.          *)
(***************************************************************************)
IssuedUpdate ==
    /\ last.op \in {"componentDidMount", "componentDidUpdate", "forceUpdateStyles"}
    /\ \E i \in 1..Len(last.trace) : last.trace[i] = "updateDynamicStyles"

C27_ReferencePassed ==
    (IssuedUpdate /\ managers[last.m].mounted)
        => (last.err # MissingInstanceError /\ ~last.noRef)

(***************************************************************************)
(* C28: all instances of one component class have the same base rule, also  *)
(* when the class has no name of its own; the componentDidMount of a later   *)
(* instance is a cache hit, not a first compile.                            *)
(***************************************************************************)
C28_OneNamePerClass ==
    /\ \A m1, m2 \in Managers :
           managers[m1].class = managers[m2].class
               => managers[m1].baseRule = managers[m2].baseRule
    /\ (last.op = "componentDidMount" /\ last.first)
           => ~\E m \in Managers \ {last.m} :
                  /\ managers[m].class = managers[last.m].class
                  /\ managers[m].compiled # 0

(***************************************************************************)
(* C29: a first compile is atomic: after an initStyle() that raised while   *)
(* compiling an uncompiled base rule, the base rule is still uncompiled and *)
(* the registry holds no output target made by that call.                   *)
(***************************************************************************)
FailedFirstCompile == last.op = "initStyle" /\ last.first /\ last.err # NoError

\* the elements the registry holds
Registered ==
    {Get(knownStyles, Keys(knownStyles)[i]).static : i \in 1..Len(knownStyles)}
        \cup {Get(knownStyles, Keys(knownStyles)[i]).dynamic : i \in 1..Len(knownStyles)}

MadeByLast ==
    {s \in 1..Len(sheets) :
        /\ sheets[s].made.rule = managers[last.m].baseRule
        /\ sheets[s].made.nth = InitCalls(managers[last.m].baseRule)}

C29_FirstCompileAtomic ==
    FailedFirstCompile =>
        /\ ~Truthy(styleInitializedBefore(initializedComponents, managers[last.m].baseRule))
        /\ Registered \cap MadeByLast = {}

(***************************************************************************)
(* C30: every selector or animation name that is a key of a manager's       *)
(* dynamic rule set has a registry record that holds a dynamic element, and *)
(* no updateDynamicStyles() call fails on a missing record or element.      *)
(***************************************************************************)
C30_DynamicKeysHaveTargets ==
    /\ \A m \in Managers :
           \A i \in 1..Len(Entries(managers[m].dynamicRules)) :
               LET ruleLine == Entries(managers[m].dynamicRules)[i][1]
               IN  /\ HasKey(knownStyles, ruleLine)
                   /\ Get(knownStyles, ruleLine).dynamic # NoSheet
                   /\ Get(knownStyles, ruleLine).dynamic \in 1..Len(sheets)
    /\ last.op = "updateDynamicStyles" => last.err # TypeError

====
